---- MODULE Spec2Model ----
(***************************************************************************)
(* State-machine model of the dynamo inventory core:                       *)
(*   - lib/dataformat/block.py      Block, its lazy file set and the       *)
(*                                  class-wide file-set cache              *)
(*   - lib/core/components/impl/mysqlboard.py   the MySQL update board     *)
(*   - lib/detox/policy.py          PolicyLine / Policy evaluation, the    *)
(*                                  policy-stack parser, partition_replicas *)
(*                                  and restore_replicas                   *)
(*   - lib/policy/producers/weblock.py   WebReplicaLock.update             *)
(*   - lib/core/components/impl/socketappserver.py   SocketIO framing, the *)
(*                                  connection handler of SocketAppServer, *)
(*                                  _serve_synch_app, SocketConsole        *)
(* socketappserver.py uses json, sys, select and LOG without binding them, *)
(* and l.291 passes a positional argument after a keyword one.  The model  *)
(* takes json, sys and select to be the standard modules, LOG to be the    *)
(* module logger and l.291 to pass args = (workarea, oconn, econn); names  *)
(* of a method body that nothing binds (user, app_id, path) raise          *)
(* NameError where they are read.                                          *)
(***************************************************************************)
EXTENDS Integers, Sequences, FiniteSets, TLC

VARIABLES server_side, blocks, objs, datasets, replica_links, cache, cache_order, ret

VARIABLES table, next_id, lock_holder, wpc, wbatch, wpending, wtag, ntags,
          cpc, cdrained, applied, applied_twice, log

blockVars == <<server_side, blocks, objs, datasets, replica_links, cache, cache_order, ret>>

boardVars == <<table, next_id, lock_holder, wpc, wbatch, wpending, wtag, ntags,
               cpc, cdrained, applied, applied_twice, log>>

VARIABLES policy_lines, default_decision, block_replicas, dyn, cached_action,
          has_match, pret

policyVars == <<policy_lines, default_decision, block_replicas, dyn, cached_action,
                has_match, pret>>

\* the Policy object the last construction produced, what it raised, and
\* whether the text it was given had an invalid line and had all required lines
VARIABLES pol, perr, ptext

parseVars == <<pol, perr, ptext>>

\* the inventory partition_replicas works on: dataset.replicas,
\* replica.block_replicas, site.dataset_replicas, the block replicas of a site,
\* Policy.untracked_replicas; the inventory before the last partition_replicas,
\* its arguments, and which of the two calls came last
VARIABLES dataset_replicas, dr_block_replicas, site_dataset_replicas, site_block_replicas,
          untracked_replicas, before, pargs, pphase

partVars == <<dataset_replicas, dr_block_replicas, site_dataset_replicas, site_block_replicas,
              untracked_replicas, before, pargs, pphase>>

\* WebReplicaLock.update: dataset.attr['locked_blocks'] of every dataset, where
\* update() stands (lpc), the order it visits the sources in and the source it
\* is at, the last response of lock_url, the exception update() raised, and
\* the locks the sources have stated since update() began, and the locks the
\* datasets held when it began
VARIABLES locked_blocks, lpc, lorder, lidx, lresp, lerr, stated, previous

lockVars == <<locked_blocks, lpc, lorder, lidx, lresp, lerr, stated, previous>>

\* SocketIO: the payload the peer framed and sent, the chunks conn.recv has
\* still to return, the data and length of the recv() under way, where recv()
\* stands and what it returned or raised
VARIABLES spayload, wire, rdata, rlength, rpc, rret

sockVars == <<spayload, wire, rdata, rlength, rpc, rret>>

\* the master's application table, the handler of one connection (where it
\* stands, the peer certificate, the identified user, the first message, the
\* replies sent, the effects performed in order, the work area, the
\* connection), the table when the connection was accepted, and how the
\* last read from the client went
VARIABLES apps, apc, acert, auser, amsg, areplies, atrace, aarea, aconn, apps0, ain

appVars == <<apps, apc, acert, auser, amsg, areplies, atrace, aarea, aconn, apps0, ain>>

\* one call of _serve_synch_app: its arguments, the child process, the
\* master's record of the application, the two output sockets, the stop
\* event, the tail-follower threads started, and how the call ended
VARIABLES sargs, schild, srecord, sconns, sstop, sthreads, sret

synchVars == <<sargs, schild, srecord, sconns, sstop, sthreads, sret>>

\* a SocketConsole: the transmissions still to come on its connection, its
\* fields _lines, _last_line, _buffer and _expected_length, how the last
\* raw_input call ended, the payloads the client framed, and the lines
\* returned so far
VARIABLES kchunks, klines, klast, kbuffer, kexpected, kret, kpayloads, kgot

consVars == <<kchunks, klines, klast, kbuffer, kexpected, kret, kpayloads, kgot>>

\* threads that use the blocks: the holder of Block._files_cache_lock, where
\* each thread stands in _check_and_load_files, the call it is in, and the
\* last change of Block._files_cache (who made it, whether that thread held
\* the lock, whether another thread was inside the locked section), and the
\* last call of inventory_store.get_files (who made it, whether that thread
\* held the lock)
VARIABLES files_cache_lock, tpc, tcall, tmut, tstore

threadVars == <<files_cache_lock, tpc, tcall, tmut, tstore>>

\* the output of a synchronous application and its followers: the content
\* of the files _stdout and _stderr ("absent" until the file exists), the
\* child process, the stop event, the two sockets, where the handler and
\* each tail_follow thread stand, each thread's file offset and the line it
\* has read, what each socket was sent, and the sockets a thread called
\* sendall on after the handler had closed them
VARIABLES fcontent, fchild, fstop, fsock, fhandler, fpc, fpos, fline, fsent, flate

followVars == <<fcontent, fchild, fstop, fsock, fhandler, fpc, fpos, fline, fsent, flate>>

serverVars == <<appVars, synchVars, consVars, threadVars, followVars>>

vars == <<blockVars, boardVars, policyVars, parseVars, partVars, lockVars, sockVars, serverVars>>

(***************************************************************************)
(* The parts of the model run separately: each specification moves         *)
(* one part and keeps the others in their initial state.                   *)
(***************************************************************************)
Writers == {"w1", "w2"}
NoHolder == "none"

InitBoard ==
    /\ table = {}
    /\ next_id = 1
    /\ lock_holder = NoHolder
    /\ wpc = [w \in Writers |-> "idle"]
    /\ wbatch = [w \in Writers |-> <<>>]
    /\ wpending = [w \in Writers |-> <<>>]
    /\ wtag = [w \in Writers |-> 0]
    /\ ntags = 0
    /\ cpc = "idle"
    /\ cdrained = <<>>
    /\ applied = {}
    /\ applied_twice = FALSE
    /\ log = <<>>

\* dataset replicas of the inventory a policy is evaluated on
Replicas == {"r1", "r2"}

\* the value Python's None has as an action
NoneAction == [cls |-> "None"]

\* a policy with no line, before any evaluation
PolicyAtRest ==
    /\ policy_lines = <<>>
    /\ default_decision = "Dismiss"
    /\ block_replicas = [r \in Replicas |-> {}]
    /\ dyn = {}
    /\ cached_action = <<>>
    /\ has_match = <<>>
    /\ pret = [replica |-> "r1", action |-> NoneAction, matched |-> {}]

\* no Policy object has been constructed yet
NoPolicy ==
    [constructed |-> FALSE, target_site_def |-> "None", deletion_trigger |-> "None",
     stop_condition |-> "None", policy_lines |-> <<>>, default_decision |-> "None",
     candidate_sort_key |-> <<>>, need_iteration |-> FALSE]

ParseAtRest ==
    /\ pol = NoPolicy
    /\ perr = "none"
    /\ ptext = [invalid |-> FALSE, complete |-> FALSE]

\* the inventory of the partition runs: two datasets, replicas of d1 at both
\* sites and of d2 at S1; a dataset replica is <<dataset, site>>, a block
\* replica <<block, site>>
PartSites == {"S1", "S2"}
PartDatasets == {"d1", "d2"}
DatasetReplicas == {<<"d1", "S1">>, <<"d1", "S2">>, <<"d2", "S1">>}
BlockReplicas == {<<"b1", "S1">>, <<"b2", "S1">>, <<"b1", "S2">>, <<"b2", "S2">>, <<"c1", "S1">>}

\* the elements of a list
Elems(seq) == {seq[i] : i \in DOMAIN seq}

\* site.dataset_replicas and the block replicas of a site, as the inventory
\* keeps them: what the dataset replicas at the site hold
SiteView(reps, brs) ==
    [dataset_replicas |-> [s \in PartSites |-> {R \in UNION {Elems(reps[d]) : d \in PartDatasets} : R[2] = s}],
     block_replicas |-> [s \in PartSites |-> UNION {Elems(brs[R]) : R \in {Q \in DatasetReplicas : Q[2] = s}}]]

Inventory(reps, brs) ==
    /\ dataset_replicas = reps
    /\ dr_block_replicas = brs
    /\ site_dataset_replicas = SiteView(reps, brs).dataset_replicas
    /\ site_block_replicas = SiteView(reps, brs).block_replicas
    /\ untracked_replicas = <<>>
    /\ before = [replicas |-> reps, block_replicas |-> brs,
                 site_dataset_replicas |-> SiteView(reps, brs).dataset_replicas,
                 site_block_replicas |-> SiteView(reps, brs).block_replicas]
    /\ pargs = [partition |-> {}, target_sites |-> {}]
    /\ pphase = "whole"

PartAtRest ==
    Inventory([d \in PartDatasets |-> <<>>], [R \in DatasetReplicas |-> <<>>])

\* the inventory of the lock runs: d1 with blocks b1, b2 and replicas at S1 and
\* S2, d2 with block c1 and a replica at S1
LockDatasets == {"d1", "d2"}
LockSites == {"S1", "S2"}

\* a dataset with no locked_blocks attribute
NoAttr == [present |-> FALSE, sites |-> <<>>]

LocksAtRest ==
    /\ locked_blocks = [d \in LockDatasets |-> NoAttr]
    /\ lpc = "idle"
    /\ lorder = <<>>
    /\ lidx = 0
    /\ lresp = "none"
    /\ lerr = "none"
    /\ stated = {}
    /\ previous = {}

\* length before the first transmission is read
NoLength == -1

\* a connection nothing was sent on
SocketAtRest ==
    /\ spayload = <<>>
    /\ wire = <<>>
    /\ rdata = <<>>
    /\ rlength = NoLength
    /\ rpc = "idle"
    /\ rret = [kind |-> "none", value |-> <<>>]

\* application statuses of ServerManager
AppStatuses == {"NEW", "ASSIGNED", "RUN", "DONE", "FAILED", "KILLED"}

NoCert == [subject |-> <<>>, issuer |-> <<>>]

NoMessage == [k \in {} |-> ""]

NoArea == [kind |-> "none", words |-> {}, exists |-> FALSE]

\* a server no client has connected to
AppAtRest ==
    /\ apps = [a \in {1, 2} |-> IF a = 1 THEN "NEW" ELSE "absent"]
    /\ apc = "idle"
    /\ acert = NoCert
    /\ auser = "None"
    /\ amsg = NoMessage
    /\ areplies = <<>>
    /\ atrace = <<>>
    /\ aarea = NoArea
    /\ aconn = "none"
    /\ apps0 = apps
    /\ ain = "none"

NoCall == [app_id |-> 0, addr |-> [k \in {} |-> ""], listening |-> FALSE]

\* no synchronous application is being served
SynchAtRest ==
    /\ sargs = NoCall
    /\ schild = "running"
    /\ srecord = "RUN"
    /\ sconns = <<"new", "new">>
    /\ sstop = FALSE
    /\ sthreads = {}
    /\ sret = [kind |-> "none", value |-> "none"]

\* SocketConsole.__init__ on a connection nothing was sent on
ConsoleAtRest ==
    /\ kchunks = <<>>
    /\ klines = <<>>
    /\ klast = <<>>
    /\ kbuffer = <<>>
    /\ kexpected = <<>>
    /\ kret = [kind |-> "none", value |-> <<>>]
    /\ kpayloads = <<>>
    /\ kgot = <<>>

Threads == {"t1", "t2"}

NoMutation == [thread |-> "none", holds |-> FALSE, inside |-> {}]

NoStoreCall == [thread |-> "none", holds |-> FALSE]

\* no thread is in a Block method
ThreadsAtRest ==
    /\ files_cache_lock = "none"
    /\ tpc = [t \in Threads |-> "idle"]
    /\ tcall = [t \in Threads |-> [block |-> 0, cache |-> TRUE]]
    /\ tmut = NoMutation
    /\ tstore = NoStoreCall

Streams == {"stdout", "stderr"}

NoFile == <<"absent">>

\* no application runs and no follower was started
FollowAtRest ==
    /\ fcontent = [s \in Streams |-> NoFile]
    /\ fchild = "none"
    /\ fstop = FALSE
    /\ fsock = [s \in Streams |-> "new"]
    /\ fhandler = "idle"
    /\ fpc = [s \in Streams |-> "none"]
    /\ fpos = [s \in Streams |-> 0]
    /\ fline = [s \in Streams |-> <<>>]
    /\ fsent = [s \in Streams |-> <<>>]
    /\ flate = {}

ServerAtRest == AppAtRest /\ SynchAtRest /\ ConsoleAtRest /\ ThreadsAtRest /\ FollowAtRest

\* what the operations of each part leave alone
notBlockVars == <<boardVars, policyVars, parseVars, partVars, lockVars, sockVars, serverVars>>
notBoardVars == <<blockVars, policyVars, parseVars, partVars, lockVars, sockVars, serverVars>>
notPolicyVars == <<blockVars, boardVars, parseVars, partVars, lockVars, sockVars, serverVars>>
notParseVars == <<blockVars, boardVars, policyVars, partVars, lockVars, sockVars, serverVars>>
notPartVars == <<blockVars, boardVars, policyVars, parseVars, lockVars, sockVars, serverVars>>
notLockVars == <<blockVars, boardVars, policyVars, parseVars, partVars, sockVars, serverVars>>
notSockVars == <<blockVars, boardVars, policyVars, parseVars, partVars, lockVars, serverVars>>
notServerVars == <<blockVars, boardVars, policyVars, parseVars, partVars, lockVars, sockVars>>
notAppVars == <<notServerVars, synchVars, consVars, threadVars, followVars>>
notSynchVars == <<notServerVars, appVars, consVars, threadVars, followVars>>
notConsVars == <<notServerVars, appVars, synchVars, threadVars, followVars>>
notFollowVars == <<notServerVars, appVars, synchVars, consVars, threadVars>>
notThreadVars == <<boardVars, policyVars, parseVars, partVars, lockVars, sockVars, appVars, synchVars, consVars, followVars>>

(***************************************************************************)
(* Bounds of the block model.                                              *)
(***************************************************************************)

\* Block._MAX_FILES_CACHE_DEPTH (block.py:19 sets 1000; scaled down so that
\* the cache fills up with three blocks)
_MAX_FILES_CACHE_DEPTH == 2

\* the Block objects the model can hold at once
BlockIds == {1, 2, 3}
NoBlock == 0

BlockNames == {"b1", "b2", "b3"}
DatasetNames == {"d1", "d2"}
\* the datasets registered in inventory.datasets
InventoryDatasets == {"d1"}
Sites == {"s1"}

Files == {"f1", "f2"}

\* File.size
FileSize(f) == IF f = "f1" THEN 1 ELSE 2

RECURSIVE SumSizes(_)
\* sum(f.size for f in files)
SumSizes(S) ==
    IF S = {} THEN 0
    ELSE LET f == CHOOSE x \in S : TRUE IN FileSize(f) + SumSizes(S \ {f})

\* inventory_store.get_files(block): what the store holds for each block
StoreFiles(name) == {"f1", "f2"}

(***************************************************************************)
(* Block._files: None, a weak proxy to a frozenset held by the cache, or a *)
(* real (mutable) set.  A proxy is live while its referent is alive.       *)
(***************************************************************************)
FNone == [k |-> "None", s |-> {}, live |-> FALSE]
FProxy(S) == [k |-> "Proxy", s |-> S, live |-> TRUE]
FSet(S) == [k |-> "Set", s |-> S, live |-> FALSE]

\* Block.__init__
NewBlock(name, dataset, size, num_files, is_open, last_update, bid) ==
    [name |-> name, dataset |-> dataset, size |-> size, num_files |-> num_files,
     is_open |-> is_open, last_update |-> last_update, id |-> bid,
     replicas |-> {}, files |-> FNone]

\* an unused object slot
FreeSlot == NewBlock("", "", 0, 0, FALSE, 0, 0)

(***************************************************************************)
(* Block._files_cache: an OrderedDict Block -> frozenset, modelled as the  *)
(* sequence of its items in insertion order.                               *)
(***************************************************************************)
CacheKeys(ch) == {ch[i].key : i \in 1..Len(ch)}

\* OrderedDict.pop(key), KeyError swallowed by the callers
CachePop(ch, b) == SelectSeq(ch, LAMBDA e : e.key # b)

\* OrderedDict[key] = value: an existing key keeps its position
CacheSet(ch, b, S) ==
    IF b \in CacheKeys(ch)
    THEN [i \in 1..Len(ch) |-> IF ch[i].key = b THEN [key |-> b, val |-> S] ELSE ch[i]]
    ELSE Append(ch, [key |-> b, val |-> S])

\* a proxy that outlives its referent
ExpireNever(bs, k) == bs

\* The frozenset held by the cache for block k loses its last strong
\* reference: the weak proxy in k._files expires.  CPython keeps the empty
\* frozenset as a singleton, so a proxy to it never expires.
Expire(bs, k) ==
    IF bs[k].files.k = "Proxy" /\ bs[k].files.s # {}
    THEN [bs EXCEPT ![k].files.live = FALSE]
    ELSE bs

\* popitem() with its default last = True
EvictLast(ch) == ch[Len(ch)]

\* OrderedDict.popitem(last = False): the item one eviction removes
EvictFirst(ch) == Head(ch)

\* the loop with > in place of >=
EvictLoopOffByOne(bs, ch) ==
    IF Len(ch) > _MAX_FILES_CACHE_DEPTH
    THEN [bs |-> Expire(bs, Head(ch).key), ch |-> Tail(ch)]
    ELSE [bs |-> bs, ch |-> ch]

RECURSIVE EvictLoop(_, _)
\* while len(Block._files_cache) >= Block._MAX_FILES_CACHE_DEPTH: popitem
EvictLoop(bs, ch) ==
    IF Len(ch) >= _MAX_FILES_CACHE_DEPTH
    THEN LET v == EvictFirst(ch)
         IN EvictLoop(Expire(bs, v.key), CachePop(ch, v.key))
    ELSE [bs |-> bs, ch |-> ch]

\* History of the cache: the keys now present, in the order in which they
\* were inserted.  Kept from which keys enter and leave, not from the order
\* the OrderedDict itself keeps.
OrderNext(order, ch, ch2) ==
    SelectSeq(order, LAMBDA k : k \in CacheKeys(ch2)) \o
    SelectSeq([i \in 1..Len(ch2) |-> ch2[i].key], LAMBDA k : k \notin CacheKeys(ch))

\* _load_files without the comparisons with num_files and size
LoadFilesUnchecked(blk) ==
    IF blk.id = 0 THEN [err |-> "ok", files |-> {}]
    ELSE [err |-> "ok", files |-> StoreFiles(blk.name)]

\* Block._load_files
LoadFiles(blk) ==
    IF blk.id = 0 THEN [err |-> "ok", files |-> {}]
    ELSE LET files == StoreFiles(blk.name)
         IN IF Cardinality(files) # blk.num_files
            THEN [err |-> "IntegrityError", files |-> {}]
            ELSE IF SumSizes(files) # blk.size
                 THEN [err |-> "IntegrityError", files |-> {}]
                 ELSE [err |-> "ok", files |-> files]

Result(bs, ch, err, val) == [bs |-> bs, ch |-> ch, err |-> err, val |-> val]

\* Block._check_and_load_files(cache = True)
CheckAndLoadCached(ss, bs, ch, b) ==
    LET f0 == bs[b].files
        \* len(self._files) raises ReferenceError on an expired proxy
        f1 == IF f0.k = "Proxy" /\ ~f0.live THEN FNone ELSE f0
        bs1 == [bs EXCEPT ![b].files = f1]
    IN IF f1.k # "None" THEN Result(bs1, ch, "ok", f1.s)
       ELSE LET ld == LoadFiles(bs1[b])
            IN IF ld.err # "ok" THEN Result(bs1, ch, ld.err, {})
               ELSE IF ss THEN Result(bs1, ch, "ok", ld.files)
               ELSE LET ev == EvictLoop(bs1, ch)
                        \* an entry of this block that is replaced dies too
                        ch2 == CacheSet(ev.ch, b, ld.files)
                        bs2 == [ev.bs EXCEPT ![b].files = FProxy(ld.files)]
                    IN Result(bs2, ch2, "ok", ld.files)

\* the cache = False branch without the pop of the cache entry
CheckAndLoadPermanentKeepsEntry(ss, bs, ch, b) ==
    IF ss THEN Result(bs, ch, "OperationalError", {})
    ELSE LET f0 == bs[b].files
             isProxy == f0.k = "Proxy"
             f1 == IF isProxy THEN (IF f0.live THEN FSet(f0.s) ELSE FNone) ELSE f0
             bs1 == [bs EXCEPT ![b].files = f1]
         IN IF f1.k # "None" THEN Result(bs1, ch, "ok", f1.s)
            ELSE LET ld == LoadFiles(bs1[b])
                 IN IF ld.err # "ok" THEN Result(bs1, ch, ld.err, {})
                    ELSE Result([bs1 EXCEPT ![b].files = FSet(ld.files)], ch, "ok", ld.files)

\* the cache = False branch without the refusal on the server side
CheckAndLoadPermanentAnywhere(ss, bs, ch, b) ==
    LET f0 == bs[b].files
        isProxy == f0.k = "Proxy"
        f1 == IF isProxy THEN (IF f0.live THEN FSet(f0.s) ELSE FNone) ELSE f0
        ch1 == IF isProxy THEN CachePop(ch, b) ELSE ch
        bs1 == [bs EXCEPT ![b].files = f1]
    IN IF f1.k # "None" THEN Result(bs1, ch1, "ok", f1.s)
       ELSE LET ld == LoadFiles(bs1[b])
            IN IF ld.err # "ok" THEN Result(bs1, ch1, ld.err, {})
               ELSE Result([bs1 EXCEPT ![b].files = FSet(ld.files)], ch1, "ok", ld.files)

\* Block._check_and_load_files(cache = False)
CheckAndLoadPermanent(ss, bs, ch, b) ==
    IF ss THEN Result(bs, ch, "OperationalError", {})
    ELSE LET f0 == bs[b].files
             isProxy == f0.k = "Proxy"
             f1 == IF isProxy THEN (IF f0.live THEN FSet(f0.s) ELSE FNone) ELSE f0
             ch1 == IF isProxy THEN CachePop(ch, b) ELSE ch
             bs1 == [bs EXCEPT ![b].files = f1]
         IN IF f1.k # "None" THEN Result(bs1, ch1, "ok", f1.s)
            ELSE LET ld == LoadFiles(bs1[b])
                 IN IF ld.err # "ok" THEN Result(bs1, ch1, ld.err, {})
                    ELSE Result([bs1 EXCEPT ![b].files = FSet(ld.files)], ch1, "ok", ld.files)

\* Block._check_and_load_files
CheckAndLoadFiles(ss, bs, ch, b, cacheArg) ==
    IF bs[b].files.k = "Set" THEN Result(bs, ch, "ok", bs[b].files.s)
    ELSE IF cacheArg THEN CheckAndLoadCached(ss, bs, ch, b)
    ELSE CheckAndLoadPermanent(ss, bs, ch, b)

(***************************************************************************)
(* Block operations as functions of the inventory state.                   *)
(***************************************************************************)
\* __eq__ that also compares the id
BlockEqWithId(blk, other) ==
    /\ blk.name = other.name
    /\ blk.dataset = other.dataset
    /\ blk.size = other.size
    /\ blk.num_files = other.num_files
    /\ blk.is_open = other.is_open
    /\ blk.last_update = other.last_update
    /\ blk.id = other.id

\* Block.__eq__ against a detached block (the `self is other` case cannot
\* arise: detached blocks are not objects of the inventory)
BlockEq(blk, other) ==
    /\ blk.name = other.name
    /\ blk.dataset = other.dataset
    /\ blk.size = other.size
    /\ blk.num_files = other.num_files
    /\ blk.is_open = other.is_open
    /\ blk.last_update = other.last_update

\* Dataset.find_block(name): the block of that name in dataset.blocks, or None
FindBlock(bs, members, name) ==
    IF \E b \in members : bs[b].name = name
    THEN CHOOSE b \in members : bs[b].name = name
    ELSE NoBlock

\* Block._copy_no_check(other, load_files)
CopyNoCheck(ss, bs, ch, b, other, load_files) ==
    LET bs1 == [bs EXCEPT ![b].is_open = other.is_open,
                          ![b].last_update = other.last_update]
        differ == bs1[b].size # other.size \/ bs1[b].num_files # other.num_files
        r == IF load_files /\ differ
             THEN CheckAndLoadFiles(ss, bs1, ch, b, FALSE)
             ELSE Result(bs1, ch, "ok", {})
    IN IF r.err # "ok" THEN r
       ELSE Result([r.bs EXCEPT ![b].size = other.size,
                                ![b].num_files = other.num_files],
                   r.ch, "ok", {})

EmbedOut(bs, os, ds, ch, err, blk, updated) ==
    [bs |-> bs, os |-> os, ds |-> ds, ch |-> ch, err |-> err, blk |-> blk,
     updated |-> updated]

\* Block.embed_into once the dataset is found
EmbedKnown(ss, bs, os, ds, ch, e, check) ==
    LET block == FindBlock(bs, ds[e.dataset], e.name)
    IN IF block = NoBlock
       THEN LET n == CHOOSE x \in BlockIds \ os : \A y \in BlockIds \ os : x <= y
                nb == NewBlock(e.name, e.dataset, e.size, e.num_files,
                               e.is_open, e.last_update, e.id)
            IN EmbedOut([bs EXCEPT ![n] = nb], os \cup {n},
                        [ds EXCEPT ![e.dataset] = @ \cup {n}], ch, "ok", n, TRUE)
       ELSE IF check /\ BlockEq(bs[block], e)
            THEN EmbedOut(bs, os, ds, ch, "ok", block, FALSE)
            ELSE LET r == CopyNoCheck(ss, bs, ch, block, e, ~ss)
                 IN EmbedOut(r.bs, os, ds, r.ch, r.err, block, r.err = "ok")

\* embed_into that swallows the KeyError of the dataset lookup
EmbedIntoSwallowsKeyError(ss, bs, os, ds, ch, e, check) ==
    IF e.dataset \notin DOMAIN ds
    THEN EmbedOut(bs, os, ds, ch, "ok", NoBlock, FALSE)
    ELSE EmbedKnown(ss, bs, os, ds, ch, e, check)

\* Block.embed_into(inventory, check)
EmbedInto(ss, bs, os, ds, ch, e, check) ==
    IF e.dataset \notin DOMAIN ds
    THEN EmbedOut(bs, os, ds, ch, "ObjectError: Unknown dataset", NoBlock, FALSE)
    ELSE EmbedKnown(ss, bs, os, ds, ch, e, check)

\* BlockReplica.unlink for every replica of the block: the replica leaves
\* block.replicas and its site
UnlinkReplicas(bs, rl, b) ==
    [bs |-> [bs EXCEPT ![b].replicas = {}],
     rl |-> rl \ {<<b, s>> : s \in bs[b].replicas}]

\* unlink without the cache pop
BlockUnlinkKeepsCache(bs, ds, rl, ch, b) ==
    LET u == UnlinkReplicas(bs, rl, b)
        d == bs[b].dataset
    IN IF b \notin ds[d]
       THEN [bs |-> u.bs, ds |-> ds, rl |-> u.rl, ch |-> ch, err |-> "KeyError"]
       ELSE [bs |-> u.bs, ds |-> [ds EXCEPT ![d] = @ \ {b}],
             rl |-> u.rl, ch |-> ch, err |-> "ok"]

\* Block.unlink
BlockUnlink(bs, ds, rl, ch, b) ==
    LET u == UnlinkReplicas(bs, rl, b)
        d == bs[b].dataset
    IN IF b \notin ds[d]
       THEN \* set.remove raises KeyError
            [bs |-> u.bs, ds |-> ds, rl |-> u.rl, ch |-> ch, err |-> "KeyError"]
       ELSE [bs |-> IF b \in CacheKeys(ch) THEN Expire(u.bs, b) ELSE u.bs,
             ds |-> [ds EXCEPT ![d] = @ \ {b}],
             rl |-> u.rl, ch |-> CachePop(ch, b), err |-> "ok"]

\* how a call finds the _files of block b
FileState(bs, b) ==
    IF bs[b].files.k = "Proxy"
    THEN (IF bs[b].files.live THEN "valid proxy" ELSE "expired proxy")
    ELSE bs[b].files.k

\* the call a record of `ret` is about, for the calls that change the
\* membership of a file set: the method, the block, how the call found its
\* _files and whether the file was in the set
Found(op, bs, b, present) ==
    [op |-> op, block |-> b, files |-> FileState(bs, b), present |-> present]

NotFound == [op |-> "other", block |-> NoBlock, files |-> "None", present |-> FALSE]

\* what the last call raised ("ok" when it returned) and, for embed_into with
\* check = True, the `updated` flag it returned ("None" otherwise)
Ret(res, updated) == [res |-> res, updated |-> updated, was |-> NotFound]

EmbedReturn(r, check) ==
    Ret(r.err, IF r.err = "ok" /\ check THEN (IF r.updated THEN "True" ELSE "False") ELSE "None")

(***************************************************************************)
(* Inputs of the block operations.                                         *)
(***************************************************************************)
Detached(name, dataset, size, num_files, is_open, last_update, bid) ==
    [name |-> name, dataset |-> dataset, size |-> size, num_files |-> num_files,
     is_open |-> is_open, last_update |-> last_update, id |-> bid]

\* Inputs of the file-cache runs (SpecBlocks): three blocks, so that the
\* cache overflows.  b1 and b2 agree with the store and with the values the
\* setters assign; b3 is not yet known to the store (id 0, so its files are
\* never loaded from it) and its size and num_files are changed by the
\* setters.
CacheDetached ==
    {Detached("b1", "d1", 3, 2, FALSE, 0, 1),
     Detached("b2", "d1", 3, 2, FALSE, 0, 1),
     Detached("b3", "d1", 2, 1, FALSE, 0, 0)}
CacheSizeValues == {3}
CacheNumFilesValues == {2}
CacheFiles == {"f1"}
ReplicatedNames == {"b1"}

\* Inputs of the embed runs (SpecInventory): two block names.  The variants
\* of b1 differ from the first one in each group of fields that __eq__
\* compares or ignores; <<2, 1>> contradicts the store; one variant names a
\* dataset the inventory does not have.
InventoryDetached ==
    {Detached(n, "d1", 3, 2, FALSE, 0, 1) : n \in {"b1", "b2"}} \cup
    {Detached("b1", "d1", 2, 1, FALSE, 0, 1),
     Detached("b1", "d1", 3, 2, TRUE, 0, 1),
     Detached("b1", "d1", 3, 2, FALSE, 1, 2),
     Detached("b2", "d1", 2, 1, TRUE, 1, 0),
     Detached("b1", "d2", 3, 2, FALSE, 0, 1)}
InventoryFiles == {"f2"}

InitBlocks ==
    /\ server_side \in BOOLEAN
    /\ blocks = [b \in BlockIds |-> FreeSlot]
    /\ objs = {}
    /\ datasets = [d \in InventoryDatasets |-> {}]
    /\ replica_links = {}
    /\ cache = <<>>
    /\ cache_order = <<>>
    /\ ret = Ret("ok", "None")

BlocksAtRest ==
    /\ server_side = FALSE
    /\ blocks = [b \in BlockIds |-> FreeSlot]
    /\ objs = {}
    /\ datasets = [d \in InventoryDatasets |-> {}]
    /\ replica_links = {}
    /\ cache = <<>>
    /\ cache_order = <<>>
    /\ ret = Ret("ok", "None")

(***************************************************************************)
(* Actions: one per Block operation.                                       *)
(***************************************************************************)
\* block.files
ReadFiles(b) ==
    /\ b \in objs
    /\ LET r == CheckAndLoadFiles(server_side, blocks, cache, b, TRUE)
       IN /\ blocks' = r.bs
          /\ cache' = r.ch
          /\ cache_order' = OrderNext(cache_order, cache, r.ch)
          /\ ret' = Ret(r.err, "None")
    /\ UNCHANGED <<server_side, objs, datasets, replica_links>>
    /\ UNCHANGED notBlockVars

\* block.add_file(lfile); `record` makes ret tell how the call found the block
AddFileCall(b, f, record) ==
    /\ b \in objs
    /\ LET r == CheckAndLoadFiles(server_side, blocks, cache, b, FALSE)
       IN /\ blocks' = IF r.err = "ok"
                       THEN [r.bs EXCEPT ![b].files.s = @ \cup {f}]
                       ELSE r.bs
          /\ cache' = r.ch
          /\ cache_order' = OrderNext(cache_order, cache, r.ch)
          /\ ret' = [Ret(r.err, "None") EXCEPT
                       !.was = IF record THEN Found("add_file", blocks, b, FALSE) ELSE NotFound]
    /\ UNCHANGED <<server_side, objs, datasets, replica_links>>
    /\ UNCHANGED notBlockVars

AddFile(b, f) == AddFileCall(b, f, FALSE)

\* block.remove_file(lfile); `record` makes ret tell how the call found the
\* block
RemoveFileCall(b, f, record) ==
    /\ b \in objs
    /\ LET r0 == CheckAndLoadFiles(server_side, blocks, cache, b, TRUE)
           r1 == CheckAndLoadFiles(server_side, r0.bs, r0.ch, b, FALSE)
           r == IF r0.err # "ok" \/ f \notin r0.val THEN r0 ELSE r1
           removed == r0.err = "ok" /\ f \in r0.val /\ r1.err = "ok"
       IN /\ blocks' = IF removed
                       THEN [r.bs EXCEPT ![b].files.s = @ \ {f}]
                       ELSE r.bs
          /\ cache' = r.ch
          /\ cache_order' = OrderNext(cache_order, cache, r.ch)
          /\ ret' = [Ret(r.err, "None") EXCEPT
                       !.was = IF record
                               THEN Found("remove_file", blocks, b, r0.err = "ok" /\ f \in r0.val)
                               ELSE NotFound]
    /\ UNCHANGED <<server_side, objs, datasets, replica_links>>
    /\ UNCHANGED notBlockVars

RemoveFile(b, f) == RemoveFileCall(b, f, FALSE)

\* block.num_files = value
SetNumFiles(b, v) ==
    /\ b \in objs
    /\ LET r == IF v # blocks[b].num_files
                THEN CheckAndLoadFiles(server_side, blocks, cache, b, FALSE)
                ELSE Result(blocks, cache, "ok", {})
       IN /\ blocks' = IF r.err = "ok" THEN [r.bs EXCEPT ![b].num_files = v] ELSE r.bs
          /\ cache' = r.ch
          /\ cache_order' = OrderNext(cache_order, cache, r.ch)
          /\ ret' = Ret(r.err, "None")
    /\ UNCHANGED <<server_side, objs, datasets, replica_links>>
    /\ UNCHANGED notBlockVars

\* block.size = value
SetSize(b, v) ==
    /\ b \in objs
    /\ LET r == IF v # blocks[b].size
                THEN CheckAndLoadFiles(server_side, blocks, cache, b, FALSE)
                ELSE Result(blocks, cache, "ok", {})
       IN /\ blocks' = IF r.err = "ok" THEN [r.bs EXCEPT ![b].size = v] ELSE r.bs
          /\ cache' = r.ch
          /\ cache_order' = OrderNext(cache_order, cache, r.ch)
          /\ ret' = Ret(r.err, "None")
    /\ UNCHANGED <<server_side, objs, datasets, replica_links>>
    /\ UNCHANGED notBlockVars

\* block.copy(other)
Copy(b, e) ==
    /\ b \in objs
    /\ LET r == IF blocks[b].dataset # e.dataset
                THEN Result(blocks, cache, "ObjectError: Cannot copy", {})
                ELSE CopyNoCheck(server_side, blocks, cache, b, e, TRUE)
       IN /\ blocks' = r.bs
          /\ cache' = r.ch
          /\ cache_order' = OrderNext(cache_order, cache, r.ch)
          /\ ret' = Ret(r.err, "None")
    /\ UNCHANGED <<server_side, objs, datasets, replica_links>>
    /\ UNCHANGED notBlockVars

\* other.embed_into(inventory, check)
Embed(e, check) ==
    \* a new Block needs a free object of the model
    /\ IF e.dataset \in DOMAIN datasets
       THEN FindBlock(blocks, datasets[e.dataset], e.name) # NoBlock \/ objs # BlockIds
       ELSE TRUE
    /\ LET r == EmbedInto(server_side, blocks, objs, datasets, cache, e, check)
       IN /\ blocks' = r.bs
          /\ objs' = r.os
          /\ datasets' = r.ds
          /\ cache' = r.ch
          /\ cache_order' = OrderNext(cache_order, cache, r.ch)
          /\ ret' = EmbedReturn(r, check)
    /\ UNCHANGED <<server_side, replica_links>>
    /\ UNCHANGED notBlockVars

\* block.unlink()
Unlink(b) ==
    /\ b \in objs
    /\ LET r == BlockUnlink(blocks, datasets, replica_links, cache, b)
       IN /\ blocks' = r.bs
          /\ datasets' = r.ds
          /\ replica_links' = r.rl
          /\ cache' = r.ch
          /\ cache_order' = OrderNext(cache_order, cache, r.ch)
          /\ ret' = Ret(r.err, "None")
    /\ UNCHANGED <<server_side, objs>>
    /\ UNCHANGED notBlockVars

\* other.unlink_from(inventory)
UnlinkFrom(e) ==
    /\ LET found == IF e.dataset \in DOMAIN datasets
                    THEN FindBlock(blocks, datasets[e.dataset], e.name)
                    ELSE NoBlock
           r == BlockUnlink(blocks, datasets, replica_links, cache, found)
       IN IF found = NoBlock
          THEN /\ ret' = Ret("ok", "None")
               /\ UNCHANGED <<blocks, datasets, replica_links, cache, cache_order>>
          ELSE /\ blocks' = r.bs
               /\ datasets' = r.ds
               /\ replica_links' = r.rl
               /\ cache' = r.ch
               /\ cache_order' = OrderNext(cache_order, cache, r.ch)
               /\ ret' = Ret(r.err, "None")
    /\ UNCHANGED <<server_side, objs>>
    /\ UNCHANGED notBlockVars

\* a BlockReplica of block b at site s is linked into the inventory
LinkReplica(b, s) ==
    /\ b \in objs
    /\ b \in datasets[blocks[b].dataset]
    /\ s \notin blocks[b].replicas
    /\ blocks' = [blocks EXCEPT ![b].replicas = @ \cup {s}]
    /\ replica_links' = replica_links \cup {<<b, s>>}
    /\ ret' = Ret("ok", "None")
    /\ UNCHANGED <<server_side, objs, datasets, cache, cache_order>>
    /\ UNCHANGED notBlockVars

NextBlocks ==
    \/ \E b \in BlockIds : ReadFiles(b)
    \/ \E b \in BlockIds, f \in CacheFiles : AddFile(b, f)
    \/ \E b \in BlockIds, f \in CacheFiles : RemoveFile(b, f)
    \/ \E b \in BlockIds, v \in CacheNumFilesValues : SetNumFiles(b, v)
    \/ \E b \in BlockIds, v \in CacheSizeValues : SetSize(b, v)
    \/ \E e \in CacheDetached : Embed(e, FALSE)
    \/ \E b \in BlockIds : Unlink(b)
    \/ \E e \in CacheDetached : UnlinkFrom(e)
    \/ \E b \in BlockIds, s \in Sites : blocks[b].name \in ReplicatedNames /\ LinkReplica(b, s)

InitSpecBlocks == InitBlocks /\ InitBoard /\ PolicyAtRest /\ ParseAtRest /\ PartAtRest /\ LocksAtRest /\ SocketAtRest /\ ServerAtRest

SpecBlocks == InitSpecBlocks /\ [][NextBlocks]_vars

NextInventory ==
    \/ \E e \in InventoryDetached, check \in BOOLEAN : Embed(e, check)
    \/ \E b \in BlockIds : ReadFiles(b)
    \/ \E b \in BlockIds, e \in InventoryDetached : Copy(b, e)
    \/ \E b \in BlockIds, f \in InventoryFiles : AddFile(b, f)
    \/ \E b \in BlockIds, f \in InventoryFiles : RemoveFile(b, f)

SpecInventory == InitSpecBlocks /\ [][NextInventory]_vars

(***************************************************************************)
(* Properties of the Block model.                                          *)
(***************************************************************************)
Linked(b) == b \in objs /\ b \in datasets[blocks[b].dataset]
ExpiredProxy(b) == blocks[b].files.k = "Proxy" /\ ~blocks[b].files.live
ValidProxy(b) == blocks[b].files.k = "Proxy" /\ blocks[b].files.live

\* C1: in client-side mode the file-set cache never holds more than
\* _MAX_FILES_CACHE_DEPTH entries, whatever reads, add_file / remove_file
\* calls, num_files / size assignments and unlink calls have happened.
C1_CacheBounded == ~server_side => Len(cache) <= _MAX_FILES_CACHE_DEPTH

\* a full cache after every block of the model has been loaded once
C1_Witness ==
    /\ ~server_side
    /\ Len(cache) = _MAX_FILES_CACHE_DEPTH
    /\ objs = BlockIds
    /\ \A b \in objs : blocks[b].files.k # "None"

\* C2: eviction is FIFO.  A step that caches a new key while the cache is
\* full removes exactly the key inserted earliest among those present, however
\* recently any entry was read.
C2_FifoEviction ==
    [][(/\ Len(cache) >= _MAX_FILES_CACHE_DEPTH
        /\ CacheKeys(cache') \ CacheKeys(cache) # {})
       => CacheKeys(cache) \ CacheKeys(cache') = {cache_order[1]}]_vars

\* a full cache out of which a block that is still in its dataset was evicted
C2_Witness ==
    /\ Len(cache) = _MAX_FILES_CACHE_DEPTH
    /\ \E b \in objs : Linked(b) /\ ExpiredProxy(b) /\ b \notin CacheKeys(cache)
    /\ cache_order = [i \in 1..Len(cache) |-> cache[i].key]

\* C3 as stated: every block whose file set is a materialized (Loaded) set
\* has num_files = |files| and size = sum of the file sizes.
C3_LoadedMatches ==
    \A b \in objs :
        blocks[b].files.k = "Set" =>
            /\ blocks[b].num_files = Cardinality(blocks[b].files.s)
            /\ blocks[b].size = SumSizes(blocks[b].files.s)

\* C3 amended: in client-side mode, every block with a non-zero id whose
\* file set is held as it was loaded from the store (a valid weak handle to
\* its cache entry) has num_files = |files| and size = sum of the file sizes.
C3_CachedMatches ==
    ~server_side =>
        /\ \A b \in objs :
              (ValidProxy(b) /\ blocks[b].id # 0) =>
                  /\ blocks[b].num_files = Cardinality(blocks[b].files.s)
                  /\ blocks[b].size = SumSizes(blocks[b].files.s)
        /\ \A i \in 1..Len(cache) :
              blocks[cache[i].key].id # 0 =>
                  /\ blocks[cache[i].key].num_files = Cardinality(cache[i].val)
                  /\ blocks[cache[i].key].size = SumSizes(cache[i].val)

\* a block known to the store whose non-empty file set is held by the cache
C3_Witness ==
    \E b \in objs :
        /\ ValidProxy(b)
        /\ blocks[b].id # 0
        /\ blocks[b].files.s # {}
        /\ b \in CacheKeys(cache)

\* the second of two embed_into(inventory, check = True) calls of the same
\* detached block, applied to the state the first call left
SecondEmbedIsNoOp(e) ==
    LET r2 == EmbedInto(server_side', blocks', objs', datasets', cache', e, TRUE)
    IN /\ r2.err = "ok"
       /\ ~r2.updated
       /\ r2.bs = blocks'
       /\ r2.os = objs'
       /\ r2.ds = datasets'
       /\ r2.ch = cache'

C5_UnknownDataset ==
    [][\A e \in InventoryDetached, check \in BOOLEAN :
          (e.dataset \notin DOMAIN datasets /\ Embed(e, check))
              => /\ ret'.res = "ObjectError: Unknown dataset"
                 /\ UNCHANGED <<blocks, objs, datasets, replica_links, cache>>]_vars

\* the ObjectError was raised against an inventory that holds blocks and
\* cached file sets
C5_Witness ==
    /\ ret.res = "ObjectError: Unknown dataset"
    /\ objs # {}
    /\ cache # <<>>

\* C6: after unlink() of a block that is in its dataset, the block is not in
\* the dataset's blocks, has no replicas, no replica of it is left at a site,
\* and the cache has no entry for it, whatever its file set was.
C6_UnlinkRemovesBackReferences ==
    [][\A b \in BlockIds :
          (Linked(b) /\ Unlink(b))
              => /\ b \notin datasets'[blocks[b].dataset]
                 /\ blocks'[b].replicas = {}
                 /\ \A s \in Sites : <<b, s>> \notin replica_links'
                 /\ b \notin CacheKeys(cache')]_vars

\* a block out of its dataset whose weak handle expired, next to a block that
\* is still cached
C6_Witness ==
    /\ ret.res = "ok"
    /\ \E b \in objs : ~Linked(b) /\ ExpiredProxy(b) /\ blocks[b].name \in ReplicatedNames
    /\ cache # <<>>

(***************************************************************************)
(* MySQLUpdateBoard.  Every caller (the writers that submit inventory      *)
(* updates and the server that consumes them) has its own board object     *)
(* and hence its own database session; `table` is inventory_updates.       *)
(***************************************************************************)
Consumer == "server"

\* lengths of the batches handed to write_updates
BatchLens == {1, 2}
\* number of write_updates calls in a run
MaxBatches == 3

\* DynamoInventory.CMD_UPDATE, DynamoInventory.CMD_DELETE
Cmds == {"CMD_UPDATE", "CMD_DELETE"}
Objs == {"obj"}
Commands == [cmd : Cmds, obj : Objs]
Batches == UNION {[1..n -> Commands] : n \in BatchLens}

\* LOCK TABLES ... WRITE returns once no other session holds the table
LockTables(holder, p) == [granted |-> holder = NoHolder, holder |-> p]

\* UNLOCK TABLES
UnlockTables(holder, p) == IF holder = p THEN NoHolder ELSE holder

\* a statement on a table that another session has locked for writing waits
TableAccessible(holder, p) == holder \in {NoHolder, p}

\* lock() that takes no lock
BoardLockNoOp(holder, p) == [granted |-> TRUE, holder |-> holder]

\* MySQLUpdateBoard.lock
BoardLock(holder, p) == LockTables(holder, p)

\* MySQLUpdateBoard.unlock
BoardUnlock(holder, p) == UnlockTables(holder, p)

\* write_updates without its lock_tables call
WriteNoLock(holder, p) == [granted |-> TRUE, holder |-> holder]

\* the lock_tables call of write_updates
WriteLock(holder, p) == LockTables(holder, p)

\* the column value write_updates stores for a command
CmdToColumn(cmd) == IF cmd = "CMD_UPDATE" THEN "update" ELSE "delete"

\* the command get_updates yields for a column value
ColumnToCmd(col) == IF col = "update" THEN "CMD_UPDATE" ELSE "CMD_DELETE"

RECURSIVE RowsDescending(_)
\* the rows, ORDER BY id DESC
RowsDescending(rows) ==
    IF rows = {} THEN <<>>
    ELSE LET r == CHOOSE x \in rows : \A y \in rows : x.id >= y.id
         IN <<r>> \o RowsDescending(rows \ {r})

RECURSIVE RowsById(_)
\* SELECT ... FROM inventory_updates ORDER BY id
RowsById(rows) ==
    IF rows = {} THEN <<>>
    ELSE LET r == CHOOSE x \in rows : \A y \in rows : x.id <= y.id
         IN <<r>> \o RowsById(rows \ {r})

\* MySQLUpdateBoard.get_updates: the rows it yields, in order
GetUpdates(rows) ==
    LET sorted == RowsById(rows)
    IN [i \in 1..Len(sorted) |->
           [cmd |-> ColumnToCmd(sorted[i].cmd), obj |-> sorted[i].obj, uid |-> sorted[i].uid]]

\* INSERT INTO inventory_updates (cmd, obj): the row gets the next AUTO_INCREMENT id
\* (uid names the command for the properties; it is no column of the table)
InsertRow(rows, id, c, uid) ==
    rows \cup {[id |-> id, cmd |-> CmdToColumn(c.cmd), obj |-> c.obj, uid |-> uid]}

\* write_updates(update_commands): lock_tables
WriteBegin(w, batch) ==
    /\ wpc[w] = "idle"
    /\ ntags < MaxBatches
    /\ LET l == WriteLock(lock_holder, w)
       IN /\ l.granted
          /\ lock_holder' = l.holder
    /\ wpc' = [wpc EXCEPT ![w] = "inserting"]
    /\ wbatch' = [wbatch EXCEPT ![w] = batch]
    /\ wpending' = [wpending EXCEPT ![w] = batch]
    /\ ntags' = ntags + 1
    /\ wtag' = [wtag EXCEPT ![w] = ntags + 1]
    /\ UNCHANGED <<table, next_id, cpc, cdrained, applied, applied_twice, log>>
    /\ UNCHANGED notBoardVars

\* write_updates: one INSERT of the loop
WriteInsert(w) ==
    /\ wpc[w] = "inserting"
    /\ wpending[w] # <<>>
    /\ TableAccessible(lock_holder, w)
    /\ LET c == Head(wpending[w])
           uid == <<wtag[w], Len(wbatch[w]) - Len(wpending[w]) + 1>>
       IN /\ table' = InsertRow(table, next_id, c, uid)
          /\ log' = Append(log, [cmd |-> c.cmd, obj |-> c.obj, uid |-> uid])
    /\ next_id' = next_id + 1
    /\ wpending' = [wpending EXCEPT ![w] = Tail(@)]
    /\ UNCHANGED <<lock_holder, wpc, wbatch, wtag, ntags, cpc, cdrained, applied,
                   applied_twice>>
    /\ UNCHANGED notBoardVars

\* write_updates: the finally clause, reached when the loop is over or when
\* a query raised
WriteFinally(w) ==
    /\ wpc[w] = "inserting"
    /\ lock_holder' = UnlockTables(lock_holder, w)
    /\ wpc' = [wpc EXCEPT ![w] = "idle"]
    /\ wpending' = [wpending EXCEPT ![w] = <<>>]
    /\ wbatch' = [wbatch EXCEPT ![w] = <<>>]
    /\ UNCHANGED <<table, next_id, wtag, ntags, cpc, cdrained, applied, applied_twice, log>>
    /\ UNCHANGED notBoardVars

\* the consumer: board.lock()
ConsumerLock ==
    /\ cpc = "idle"
    /\ LET l == BoardLock(lock_holder, Consumer)
       IN /\ l.granted
          /\ lock_holder' = l.holder
    /\ cpc' = "locked"
    /\ UNCHANGED <<table, next_id, wpc, wbatch, wpending, wtag, ntags, cdrained,
                   applied, applied_twice, log>>
    /\ UNCHANGED notBoardVars

\* the consumer: board.get_updates()
ConsumerGetUpdates ==
    /\ cpc = "locked"
    /\ TableAccessible(lock_holder, Consumer)
    /\ cdrained' = GetUpdates(table)
    /\ cpc' = "applying"
    /\ UNCHANGED <<table, next_id, lock_holder, wpc, wbatch, wpending, wtag, ntags,
                   applied, applied_twice, log>>
    /\ UNCHANGED notBoardVars

\* the consumer applies the next drained command to the inventory
ConsumerApply ==
    /\ cpc = "applying"
    /\ cdrained # <<>>
    /\ applied' = applied \cup {Head(cdrained).uid}
    /\ applied_twice' = (applied_twice \/ Head(cdrained).uid \in applied)
    /\ cdrained' = Tail(cdrained)
    /\ UNCHANGED <<table, next_id, lock_holder, wpc, wbatch, wpending, wtag, ntags,
                   cpc, log>>
    /\ UNCHANGED notBoardVars

\* the consumer: board.flush()
ConsumerFlush ==
    /\ cpc = "applying"
    /\ cdrained = <<>>
    /\ TableAccessible(lock_holder, Consumer)
    /\ table' = {}
    /\ next_id' = 1
    /\ log' = <<>>
    /\ cpc' = "flushed"
    /\ UNCHANGED <<lock_holder, wpc, wbatch, wpending, wtag, ntags, cdrained, applied,
                   applied_twice>>
    /\ UNCHANGED notBoardVars

\* the consumer: board.unlock()
ConsumerUnlock ==
    /\ cpc = "flushed"
    /\ lock_holder' = BoardUnlock(lock_holder, Consumer)
    /\ cpc' = "idle"
    /\ UNCHANGED <<table, next_id, wpc, wbatch, wpending, wtag, ntags, cdrained,
                   applied, applied_twice, log>>
    /\ UNCHANGED notBoardVars

NextBoard ==
    \/ \E w \in Writers, batch \in Batches : WriteBegin(w, batch)
    \/ \E w \in Writers : WriteInsert(w)
    \/ \E w \in Writers : WriteFinally(w)
    \/ ConsumerLock
    \/ ConsumerGetUpdates
    \/ ConsumerApply
    \/ ConsumerFlush
    \/ ConsumerUnlock

InitSpecBoard == InitBoard /\ BlocksAtRest /\ PolicyAtRest /\ ParseAtRest /\ PartAtRest /\ LocksAtRest /\ SocketAtRest /\ ServerAtRest

SpecBoard == InitSpecBoard /\ [][NextBoard]_vars

\* the batches that have commands in the queue
TagsInTable == {r.uid[1] : r \in table}

\* number of commands of its batch that writer w has inserted so far
Inserted(w) == Len(wbatch[w]) - Len(wpending[w])

\* C7: get_updates yields the queued commands in the order they were
\* inserted: its result is the insertion log since the last flush, the
\* batches follow each other in write order, each batch in its own order,
\* and the commands of a batch under way are the first commands of the
\* sequence handed to write_updates.
C7_InsertionOrder ==
    LET got == GetUpdates(table)
    IN /\ got = log
       /\ \A i, j \in DOMAIN got :
              i < j => \/ got[i].uid[1] < got[j].uid[1]
                       \/ /\ got[i].uid[1] = got[j].uid[1]
                          /\ got[i].uid[2] < got[j].uid[2]
       /\ \A w \in Writers :
              (wpc[w] = "inserting" /\ Inserted(w) <= Len(got))
                  => \A k \in 1..Inserted(w) :
                         LET g == got[Len(got) - Inserted(w) + k]
                         IN /\ g.uid = <<wtag[w], k>>
                            /\ g.cmd = wbatch[w][k].cmd
                            /\ g.obj = wbatch[w][k].obj

\* the queue holds two batches of different writers, one of them of two
\* different commands
C7_Witness ==
    /\ Cardinality(TagsInTable) >= 2
    /\ Len(log) >= 3
    /\ \E i \in DOMAIN log : i < Len(log) /\ log[i].uid[1] = log[i + 1].uid[1]
                                /\ log[i].cmd # log[i + 1].cmd
    /\ \A w \in Writers : wpc[w] = "idle"

\* C8: the commands of one batch occupy consecutive positions in the queue,
\* and a writer that is not inside write_updates (it returned, or raised
\* out of the loop) does not hold the write lock.
C8_AtomicAppend ==
    /\ \A r1, r2, r \in table :
           (r1.uid[1] = r2.uid[1] /\ r1.id < r.id /\ r.id < r2.id)
               => r.uid[1] = r1.uid[1]
    /\ \A w \in Writers : wpc[w] = "idle" => lock_holder # w

\* a second writer appended its batch after a two-command batch, while the
\* reader was inside its locked cycle at some point before, and every writer
\* is out of write_updates
C8_Witness ==
    /\ \E r1, r2, r3 \in table :
           /\ r1.id < r2.id /\ r2.id < r3.id
           /\ r1.uid[1] = r2.uid[1]
           /\ r3.uid[1] # r1.uid[1]
    /\ applied # {}
    /\ \A w \in Writers : wpc[w] = "idle"
    /\ lock_holder = NoHolder

\* C9: under the consumer contract flush removes only commands that the
\* consumer drained and applied in this cycle, and no command is applied a
\* second time.
C9_AppliedExactlyOnce ==
    [][/\ ConsumerFlush => {r.uid : r \in table} \subseteq applied
       /\ ConsumerApply => Head(cdrained).uid \notin applied
       /\ ~applied_twice']_vars

\* a consumer cycle that applied commands of two batches is over, and a
\* writer has queued commands since
C9_Witness ==
    /\ cpc = "idle"
    /\ Cardinality({u[1] : u \in applied}) >= 2
    /\ table # {}
    /\ ~applied_twice

(***************************************************************************)
(* Policy evaluation (lib/detox/policy.py).  A policy line is a decision   *)
(* class and a ReplicaCondition; the condition's match() and               *)
(* get_matching_blocks() are given by the sets the condition selects.      *)
(***************************************************************************)
BlockReplicaNames == {"x", "y"}

\* the classes parse_lines accepts as the first word of a policy line
DecisionClasses == {"Protect", "Dismiss", "Delete", "ProtectBlock", "DeleteBlock"}

\* issubclass(cls, BlockAction)
IsBlockAction(cls) == cls \in {"ProtectBlock", "DeleteBlock"}

\* the KeyError of cached_action[replica]
NotCached == [cls |-> "KeyError"]

\* PolicyLine.__init__; condition_id is filled by the history interface
Line(decision, static, replicas, names, condition_id) ==
    [decision |-> decision, static |-> static, replicas |-> replicas,
     names |-> names, condition_id |-> condition_id]

\* the policy stacks the evaluation is run on, with their default decision
PolicyStacks ==
    { [lines |-> <<>>, default |-> "Protect"],
      [lines |-> <<Line("Protect", TRUE, {"r1"}, {}, 1),
                   Line("Delete", FALSE, {"r1", "r2"}, {}, 2)>>,
       default |-> "Dismiss"],
      [lines |-> <<Line("ProtectBlock", TRUE, {"r1", "r2"}, {"x"}, 1),
                   Line("DeleteBlock", FALSE, {"r1", "r2"}, {"x", "y"}, 2)>>,
       default |-> "Delete"],
      [lines |-> <<Line("Dismiss", FALSE, {"r2"}, {}, 1),
                   Line("DeleteBlock", TRUE, {"r1", "r2"}, {"y"}, 2),
                   Line("Protect", TRUE, {"r1"}, {}, 3)>>,
       default |-> "ProtectBlock"],
      [lines |-> <<Line("Delete", TRUE, {"r2"}, {}, 0),
                   Line("Protect", FALSE, {"r1", "r2"}, {}, 0)>>,
       default |-> "DeleteBlock"],
      [lines |-> <<Line("DeleteBlock", TRUE, {"r1"}, {"x"}, 1),
                   Line("Protect", TRUE, {"r1"}, {}, 2)>>,
       default |-> "Dismiss"] }

\* Action.__init__ / BlockAction.__init__
Action(cls, replica, condition, brs) ==
    IF IsBlockAction(cls)
    THEN [cls |-> cls, replica |-> replica, condition |-> condition, block_replicas |-> brs]
    ELSE [cls |-> cls, replica |-> replica, condition |-> condition]

\* Decision.action(replica, condition, *args)
DecisionAction(cls, replica, condition, brs) == Action(cls, replica, condition, brs)

\* dataset_level that keeps the block-level class
DatasetLevelKeepsClass(cls, replica, condition) == Action(cls, replica, condition, {})

\* ProtectBlock.dataset_level / DeleteBlock.dataset_level
DatasetLevel(cls, replica, condition) ==
    Action(IF cls = "ProtectBlock" THEN "Protect" ELSE "Delete", replica, condition, {})

\* condition.match(replica)
Match(line, r, dynamic) == r \in line.replicas /\ (line.static \/ r \in dynamic)

\* condition.get_matching_blocks(replica)
GetMatchingBlocks(line, r, brs) == brs[r] \cap line.names

\* memoization that leaves out the None of a line that did not match
CacheResultSkipsNone(line, ca, i, r, action) ==
    IF line.static /\ action # NoneAction THEN [ca EXCEPT ![i][r] = action] ELSE ca

\* if self.condition.static: self.cached_action[replica] = action
CacheResult(line, ca, i, r, action) ==
    IF line.static THEN [ca EXCEPT ![i][r] = action] ELSE ca

\* PolicyLine.evaluate(replica) of line i: the action it returns, the
\* lines' caches and has_match flags after it, and whether it called
\* condition.match
LineEvaluate(i, r, ca, hm) ==
    LET line == policy_lines[i]
    IN IF line.static /\ ca[i][r] # NotCached
       THEN [action |-> ca[i][r], ca |-> ca, hm |-> hm, matched |-> {}]
       ELSE IF Match(line, r, dyn)
       THEN LET matching == GetMatchingBlocks(line, r, block_replicas)
                action ==
                    IF IsBlockAction(line.decision)
                    THEN IF Cardinality(matching) = Cardinality(block_replicas[r])
                         THEN DatasetLevel(line.decision, r, line.condition_id)
                         ELSE DecisionAction(line.decision, r, line.condition_id, matching)
                    ELSE DecisionAction(line.decision, r, line.condition_id, {})
            IN [action |-> action,
                ca |-> CacheResult(line, ca, i, r, action),
                hm |-> [hm EXCEPT ![i] = TRUE],
                matched |-> {i}]
       ELSE [action |-> NoneAction,
             ca |-> CacheResult(line, ca, i, r, NoneAction),
             hm |-> hm,
             matched |-> {i}]

\* Policy.evaluate that goes through every line and keeps the last action
EvaluateKeepsLast(i, r, ca, hm, matched) ==
    LET hits == {j \in i..Len(policy_lines) : LineEvaluate(j, r, ca, hm).action # NoneAction}
    IN IF hits = {}
       THEN [action |-> DecisionAction(default_decision, r, 0, {}),
             ca |-> ca, hm |-> hm, matched |-> matched]
       ELSE LET j == CHOOSE h \in hits : \A k \in hits : k <= h
                e == LineEvaluate(j, r, ca, hm)
            IN [action |-> e.action, ca |-> e.ca, hm |-> e.hm, matched |-> matched \cup e.matched]

RECURSIVE EvaluateFrom(_, _, _, _, _)
\* Policy.evaluate(replica), the loop from line i on
EvaluateFrom(i, r, ca, hm, matched) ==
    IF i > Len(policy_lines)
    THEN [action |-> DecisionAction(default_decision, r, 0, {}),
          ca |-> ca, hm |-> hm, matched |-> matched]
    ELSE LET e == LineEvaluate(i, r, ca, hm)
         IN IF e.action # NoneAction
            THEN [action |-> e.action, ca |-> e.ca, hm |-> e.hm,
                  matched |-> matched \cup e.matched]
            ELSE EvaluateFrom(i + 1, r, e.ca, e.hm, matched \cup e.matched)

\* Policy.__init__ / parse_lines: the lines and the default decision
InitPolicy ==
    /\ \E p \in PolicyStacks :
          /\ policy_lines = p.lines
          /\ default_decision = p.default
          /\ cached_action = [i \in DOMAIN p.lines |-> [r \in Replicas |-> NotCached]]
          /\ has_match = [i \in DOMAIN p.lines |-> FALSE]
    /\ block_replicas = [r \in Replicas |-> IF r = "r1" THEN {"x", "y"} ELSE {"x"}]
    /\ dyn = {}
    /\ pret = [replica |-> "r1", action |-> NoneAction, matched |-> {}]

\* policy.evaluate(replica)
PolicyEvaluate(r) ==
    /\ LET e == EvaluateFrom(1, r, cached_action, has_match, {})
       IN /\ cached_action' = e.ca
          /\ has_match' = e.hm
          /\ pret' = [replica |-> r, action |-> e.action, matched |-> e.matched]
    /\ UNCHANGED <<policy_lines, default_decision, block_replicas, dyn>>
    /\ UNCHANGED notPolicyVars

\* line.evaluate(replica) called on one line
PolicyLineEvaluate(i, r) ==
    /\ i \in DOMAIN policy_lines
    /\ LET e == LineEvaluate(i, r, cached_action, has_match)
       IN /\ cached_action' = e.ca
          /\ has_match' = e.hm
          /\ pret' = [replica |-> r, action |-> e.action, matched |-> e.matched]
    /\ UNCHANGED <<policy_lines, default_decision, block_replicas, dyn>>
    /\ UNCHANGED notPolicyVars

\* the demand plugins refresh the dynamic variables of a replica
SetDynamic(r) ==
    /\ dyn' = IF r \in dyn THEN dyn \ {r} ELSE dyn \cup {r}
    /\ UNCHANGED <<policy_lines, default_decision, block_replicas, cached_action,
                   has_match, pret>>
    /\ UNCHANGED notPolicyVars

\* a block replica is deleted from the inventory
RemoveBlockReplica(r, b) ==
    /\ b \in block_replicas[r]
    /\ block_replicas' = [block_replicas EXCEPT ![r] = @ \ {b}]
    /\ UNCHANGED <<policy_lines, default_decision, dyn, cached_action, has_match, pret>>
    /\ UNCHANGED notPolicyVars

NextPolicy ==
    \/ \E r \in Replicas : PolicyEvaluate(r)
    \/ \E r \in Replicas, i \in 1..3 : PolicyLineEvaluate(i, r)
    \/ \E r \in Replicas : SetDynamic(r)
    \/ \E r \in Replicas, b \in BlockReplicaNames : RemoveBlockReplica(r, b)

InitSpecPolicy == InitPolicy /\ BlocksAtRest /\ InitBoard /\ ParseAtRest /\ PartAtRest /\ LocksAtRest /\ SocketAtRest /\ ServerAtRest

SpecPolicy == InitSpecPolicy /\ [][NextPolicy]_vars

\* the lines whose evaluate(r) returns an action that is not None
LinesWithAction(r) ==
    {i \in DOMAIN policy_lines :
        LineEvaluate(i, r, cached_action, has_match).action # NoneAction}

\* C10: Policy.evaluate(replica) returns the action of the first line, in
\* policy_lines order, whose evaluate returns an action that is not None,
\* and the default decision's action for the replica with condition 0 when
\* every line returns None.
C10_FirstActionOrDefault ==
    [][\A r \in Replicas :
          (PolicyEvaluate(r) /\ pret'.replica = r)
              => LET hits == LinesWithAction(r)
                 IN pret'.action =
                        IF hits = {}
                        THEN DecisionAction(default_decision, r, 0, {})
                        ELSE LET first == CHOOSE h \in hits : \A k \in hits : h <= k
                             IN LineEvaluate(first, r, cached_action, has_match).action]_vars

\* an evaluation returned the action of the second line of a three-line
\* policy after the first line returned None, while the third line would
\* return an action too
C10_Witness ==
    /\ Len(policy_lines) = 3
    /\ pret.matched = {1, 2}
    /\ pret.action # NoneAction
    /\ pret.action.condition = policy_lines[2].condition_id
    /\ 3 \in LinesWithAction(pret.replica)

\* the action the promotion rule gives for line i and replica r: the
\* dataset-level variant when every block replica matches, the block-level
\* action with the matching block replicas otherwise
Promoted(i, r) ==
    LET line == policy_lines[i]
        matching == {b \in block_replicas[r] : b \in line.names}
    IN IF matching = block_replicas[r]
       THEN [cls |-> IF line.decision = "ProtectBlock" THEN "Protect" ELSE "Delete",
             replica |-> r, condition |-> line.condition_id]
       ELSE [cls |-> line.decision, replica |-> r, condition |-> line.condition_id,
             block_replicas |-> matching]

\* C11: a line with a block-level decision whose condition matches the
\* replica emits the dataset-level variant when the matching block replicas
\* are all of replica.block_replicas, and the block-level action carrying
\* exactly the matching block replicas otherwise.
C11_RulePromotion ==
    [][\A r \in Replicas, i \in DOMAIN policy_lines :
          (/\ PolicyLineEvaluate(i, r)
           /\ pret'.replica = r
           /\ IsBlockAction(policy_lines[i].decision)
           /\ Match(policy_lines[i], r, dyn))
              => pret'.action = Promoted(i, r)]_vars

\* C11 for the evaluations in which the line computes its action (it calls
\* condition.match) rather than returning a cached one
C11_ComputedPromotion ==
    [][\A r \in Replicas, i \in DOMAIN policy_lines :
          (/\ PolicyLineEvaluate(i, r)
           /\ pret'.replica = r
           /\ pret'.matched = {i}
           /\ IsBlockAction(policy_lines[i].decision)
           /\ Match(policy_lines[i], r, dyn))
              => pret'.action = Promoted(i, r)]_vars

\* a block-level line computed the dataset-level action for a replica that
\* has block replicas, all of them matching
C11_Witness ==
    \E i \in DOMAIN policy_lines :
        /\ pret.matched = {i}
        /\ IsBlockAction(policy_lines[i].decision)
        /\ pret.action.cls \in {"Protect", "Delete"}
        /\ block_replicas[pret.replica] # {}
        /\ block_replicas[pret.replica] \subseteq policy_lines[i].names

\* every line of the policy has a static condition
AllStatic == \A i \in DOMAIN policy_lines : policy_lines[i].static

\* C12: when every line is static, a second evaluate(replica) right after
\* the first, the inventory being as the first left it, returns the same
\* action, calls condition.match on no line, and leaves the caches as they
\* are.
C12_StaticServedFromCache ==
    [][\A r \in Replicas :
          (PolicyEvaluate(r) /\ pret'.replica = r /\ AllStatic)
              => LET second == EvaluateFrom(1, r, cached_action, has_match, {})'
                 IN /\ second.action = pret'.action
                    /\ second.matched = {}
                    /\ second.ca = cached_action']_vars

\* a two-line static policy returned its default decision without calling
\* match: both lines served their memoized None
C12_Witness ==
    /\ AllStatic
    /\ Len(policy_lines) = 2
    /\ pret.matched = {}
    /\ pret.action = DecisionAction(default_decision, pret.replica, 0, {})
    /\ \A i \in DOMAIN policy_lines : cached_action[i][pret.replica] = NoneAction

(***************************************************************************)
(* lib/detox/policy.py: Policy.__init__ and Policy.parse_lines.            *)
(* A line is the sequence of its words (line.split()); a blank line is the *)
(* empty sequence and "#" stands for a first word that starts with '#'.    *)
(* "static_cond" / "dynamic_cond" are replica condition texts whose        *)
(* ReplicaCondition is static / dynamic, "site_cond" a site condition.     *)
(***************************************************************************)

\* ReplicaCondition(text).static
ConditionStatic(text) == text # "dynamic_cond"

\* variables.replica_vardefs: name -> type of the sort variables
replica_vardefs == [size |-> "NUMERIC", last_access |-> "TIME", name |-> "TEXT"]

\* the while loop of an Order line; iw is the (1-based) position of the direction.
\* key lists the (variable, reverse) pairs of the SortKey; it is empty exactly
\* when candidate_sort_key is None, as a SortKey is created with its first pair
RECURSIVE ParseOrder(_, _, _)
ParseOrder(words, iw, key) ==
    IF iw > Len(words) THEN [err |-> "none", key |-> key]
    ELSE LET direction == words[iw]
         IN IF direction = "none" THEN [err |-> "none", key |-> key]
            ELSE IF direction \notin {"increasing", "decreasing"}
                 THEN [err |-> "ConfigurationError", key |-> key]
            ELSE IF iw + 1 > Len(words)
                 THEN [err |-> "IndexError", key |-> key]
            ELSE LET varname == words[iw + 1]
                 IN IF varname \notin DOMAIN replica_vardefs
                    THEN [err |-> "KeyError", key |-> key]
                    ELSE IF replica_vardefs[varname] \notin {"NUMERIC", "TIME"}
                    THEN [err |-> "ConfigurationError", key |-> key]
                    ELSE ParseOrder(words, iw + 2,
                            Append(key, <<varname, direction = "decreasing">>))

\* the body of the for loop over the lines; st.err is what the body raised
ParseLine(st, words) ==
    IF words = <<>> THEN [st EXCEPT !.err = "IndexError"]
    ELSE IF words[1] \notin {"On", "When", "Until", "Order"} \cup DecisionClasses
    THEN [st EXCEPT !.err = "ConfigurationError"]
    ELSE IF Len(words) = 1
    THEN IF words[1] \in DecisionClasses
         THEN [st EXCEPT !.default_decision = words[1]]
         ELSE [st EXCEPT !.err = "ConfigurationError"]
    ELSE IF words[1] = "Order"
    THEN LET o == ParseOrder(words, 2, st.candidate_sort_key)
         IN [st EXCEPT !.err = o.err, !.candidate_sort_key = o.key]
    ELSE LET cond_text == words[2]
         IN CASE words[1] = "On" -> [st EXCEPT !.target_site_def = cond_text]
              [] words[1] = "When" -> [st EXCEPT !.deletion_trigger = cond_text]
              [] words[1] = "Until" -> [st EXCEPT !.stop_condition = cond_text]
              [] OTHER -> [st EXCEPT !.policy_lines =
                              Append(@, [decision |-> words[1],
                                         static |-> ConditionStatic(cond_text)])]

RECURSIVE ParseLoop(_, _, _)
ParseLoop(st, lines, i) ==
    IF i > Len(lines) \/ st.err # "none" THEN st
    ELSE ParseLoop(ParseLine(st, lines[i]), lines, i + 1)

\* the need_iteration loop with the block-level test left out
RECURSIVE NeedIterationDynamicOnly(_, _, _)
NeedIterationDynamicOnly(plines, i, ni) ==
    IF i > Len(plines) THEN ni
    ELSE NeedIterationDynamicOnly(plines, i + 1, ni \/ ~plines[i].static)

\* the loop over self.policy_lines that sets self.need_iteration
RECURSIVE NeedIterationLoop(_, _, _)
NeedIterationLoop(plines, i, ni) ==
    IF i > Len(plines) THEN ni
    ELSE NeedIterationLoop(plines, i + 1,
            IF ~ni
            THEN IF ~plines[i].static THEN TRUE
                 ELSE IF IsBlockAction(plines[i].decision) THEN TRUE
                 ELSE ni
            ELSE ni)

\* the checks and the need_iteration loop after the for loop
ParseFinish(st) ==
    IF st.err # "none" THEN st
    ELSE IF st.target_site_def = "None" THEN [st EXCEPT !.err = "ConfigurationError"]
    ELSE IF st.deletion_trigger = "None" \/ st.stop_condition = "None"
    THEN [st EXCEPT !.err = "ConfigurationError"]
    ELSE IF st.default_decision = "None" THEN [st EXCEPT !.err = "ConfigurationError"]
    ELSE [st EXCEPT !.need_iteration = NeedIterationLoop(st.policy_lines, 1, @)]

\* a file is stripped of its blank and comment lines, a list is taken as it is
FileLines(lines) == SelectSeq(lines, LAMBDA w : w # <<>> /\ w[1] # "#")

\* parse_lines on an object whose need_iteration is ni
parse_lines(lines, is_file, ni) ==
    LET input == IF is_file THEN FileLines(lines) ELSE lines
        start == [err |-> "none", constructed |-> TRUE, target_site_def |-> "None",
                  deletion_trigger |-> "None", stop_condition |-> "None",
                  policy_lines |-> <<>>, default_decision |-> "None",
                  candidate_sort_key |-> <<>>, need_iteration |-> ni]
    IN ParseFinish(ParseLoop(start, input, 1))

\* the attributes of the object, without what the call raised
Attributes(st) ==
    [constructed |-> st.constructed, target_site_def |-> st.target_site_def,
     deletion_trigger |-> st.deletion_trigger, stop_condition |-> st.stop_condition,
     policy_lines |-> st.policy_lines, default_decision |-> st.default_decision,
     candidate_sort_key |-> st.candidate_sort_key, need_iteration |-> st.need_iteration]

\* the policy stacks parsed: some of the four head lines, then up to two more lines
HeadLines ==
    { << <<"On", "site_cond">>, <<"When", "site_cond">>, <<"Until", "site_cond">>, <<"Dismiss">> >>,
      << <<"When", "site_cond">>, <<"Until", "site_cond">>, <<"Dismiss">> >>,
      << <<"On", "site_cond">>, <<"When", "site_cond">>, <<"Dismiss">> >>,
      << <<"On", "site_cond">>, <<"When", "site_cond">>, <<"Until", "site_cond">> >> }

MoreLines ==
    { <<>>, <<"#", "comment">>, <<"Keep", "static_cond">>, <<"When">>, <<"Order">>,
      <<"Order", "sideways", "size">>, <<"Order", "increasing">>,
      <<"Order", "increasing", "nosuch">>, <<"Order", "increasing", "name">>,
      <<"Order", "decreasing", "size">>, <<"Order", "none">>,
      <<"ProtectBlock">>,
      <<"Protect", "static_cond">>, <<"Dismiss", "static_cond">>,
      <<"Delete", "dynamic_cond">>, <<"DeleteBlock", "static_cond">> }

\* lines every word of which parse_lines accepts
GoodLines ==
    { <<"Order", "decreasing", "size">>, <<"Order", "increasing", "last_access", "none">>,
      <<"ProtectBlock">>,
      <<"Protect", "static_cond">>, <<"Dismiss", "static_cond">>,
      <<"Delete", "dynamic_cond">>, <<"DeleteBlock", "static_cond">> }

MoreCounts == {0, 1, 2}
GoodCounts == {3}

PolicyTexts ==
    { h \o m : h \in HeadLines,
               m \in UNION ({ [1..n -> MoreLines] : n \in MoreCounts }
                            \cup { [1..n -> GoodLines] : n \in GoodCounts }) }

\* an Order line with an invalid direction, a direction with no variable
\* after it, or an unknown or non-numeric sort variable
RECURSIVE InvalidOrder(_, _)
InvalidOrder(words, iw) ==
    IF iw > Len(words) \/ words[iw] = "none" THEN FALSE
    ELSE \/ words[iw] \notin {"increasing", "decreasing"}
         \/ iw + 1 > Len(words)
         \/ words[iw + 1] \notin {"size", "last_access"}
         \/ InvalidOrder(words, iw + 2)

\* a line that is neither blank nor a comment and is not a line of the policy
\* language
InvalidLine(words) ==
    /\ words # <<>>
    /\ words[1] # "#"
    /\ \/ words[1] \notin {"On", "When", "Until", "Order", "Protect", "Dismiss", "Delete",
                           "ProtectBlock", "DeleteBlock"}
       \/ Len(words) = 1 /\ words[1] \in {"On", "When", "Until", "Order"}
       \/ words[1] = "Order" /\ InvalidOrder(words, 2)

\* the text has its On, When and Until lines and a default decision
CompleteText(lines) ==
    /\ \A k \in {"On", "When", "Until"} :
          \E i \in DOMAIN lines : Len(lines[i]) > 1 /\ lines[i][1] = k
    /\ \E i \in DOMAIN lines : Len(lines[i]) = 1 /\ lines[i][1] \in DecisionClasses

\* Policy(partition, lines, version, inventory): no object when parse_lines raises
PolicyInit(lines, is_file) ==
    LET st == parse_lines(lines, is_file, FALSE)
    IN /\ pol' = IF st.err = "none" THEN Attributes(st) ELSE NoPolicy
       /\ perr' = st.err
       /\ ptext' = [invalid |-> \E i \in DOMAIN lines : InvalidLine(lines[i]),
                    complete |-> CompleteText(lines)]
       /\ UNCHANGED notParseVars

NextParse ==
    \E lines \in PolicyTexts, is_file \in BOOLEAN : PolicyInit(lines, is_file)

InitSpecParse == ParseAtRest /\ BlocksAtRest /\ InitBoard /\ PolicyAtRest /\ PartAtRest /\ LocksAtRest /\ SocketAtRest /\ ServerAtRest

SpecParse == InitSpecParse /\ [][NextParse]_vars

\* some policy line has a dynamic condition or a block-level decision
IterationNeeded(p) ==
    \E i \in DOMAIN p.policy_lines :
        ~p.policy_lines[i].static \/ p.policy_lines[i].decision \in {"ProtectBlock", "DeleteBlock"}

\* C13: after parse_lines, need_iteration is true exactly when some policy
\* line has a dynamic condition or a block-level decision, whatever the default
\* decision and the On/When/Until lines are.
C13_NeedIteration ==
    (pol.constructed /\ perr = "none") => (pol.need_iteration <=> IterationNeeded(pol))

C13_Witness ==
    /\ pol.constructed /\ perr = "none"
    /\ pol.default_decision = "ProtectBlock"
    /\ Len(pol.policy_lines) = 1
    /\ ~pol.need_iteration

(***************************************************************************)
(* lib/detox/policy.py: Policy.partition_replicas and restore_replicas.    *)
(* The partition is the set of block replicas its predicate selects.       *)
(***************************************************************************)

\* d[k] = v of a Python dict
Put(f, k, v) == [x \in (DOMAIN f) \cup {k} |-> IF x = k THEN v ELSE f[x]]

\* the inventories partitioned: the replica of d1 at S2 is complete or partial
InitPart ==
    \E second \in {<< <<"b1", "S2">>, <<"b2", "S2">> >>, << <<"b2", "S2">> >>} :
        Inventory([d \in PartDatasets |->
                      IF d = "d1" THEN << <<"d1", "S1">>, <<"d1", "S2">> >> ELSE << <<"d2", "S1">> >>],
                  [R \in DatasetReplicas |->
                      CASE R = <<"d1", "S1">> -> << <<"b1", "S1">>, <<"b2", "S1">> >>
                        [] R = <<"d1", "S2">> -> second
                        [] OTHER -> << <<"c1", "S1">> >>])

\* the body of the while loop for dataset.replicas[ir]; st.all_dataset_replicas
\* and st.all_block_replicas are site_all_dataset_replicas and
\* site_all_block_replicas
PartitionReplica(st, d, ir, partition, target_sites) ==
    LET replica == st.replicas[d][ir]
        site == replica[2]
        all == st.block_replicas[replica]
        in_partition == IF site \in target_sites
                          THEN SelectSeq(all, LAMBDA br : br \in partition) ELSE <<>>
        not_in_partition == IF site \in target_sites
                            THEN SelectSeq(all, LAMBDA br : br \notin partition) ELSE <<>>
    IN IF Len(in_partition) = 0
       THEN [st EXCEPT !.untracked = Put(@, replica, all),
                       !.block_replicas[replica] = <<>>,
                       !.replicas[d] = SubSeq(@, 1, ir - 1) \o SubSeq(@, ir + 1, Len(@))]
       ELSE [st EXCEPT !.block_replicas[replica] = in_partition,
                       !.untracked = IF Len(not_in_partition) # 0
                                     THEN Put(@, replica, not_in_partition) ELSE @,
                       !.all_dataset_replicas[site] = Append(@, replica),
                       !.all_block_replicas[site] = @ \o in_partition]

\* while ir != len(dataset.replicas): a removed replica leaves ir where it is
RECURSIVE PartitionDataset(_, _, _, _, _)
PartitionDataset(st, d, ir, partition, target_sites) ==
    IF ir > Len(st.replicas[d]) THEN st
    ELSE LET next == PartitionReplica(st, d, ir, partition, target_sites)
         IN PartitionDataset(next, d,
                IF Len(next.replicas[d]) < Len(st.replicas[d]) THEN ir ELSE ir + 1,
                partition, target_sites)

\* for dataset in inventory.datasets.itervalues()
RECURSIVE PartitionDatasets(_, _, _, _)
PartitionDatasets(st, todo, partition, target_sites) ==
    IF todo = {} THEN st
    ELSE LET d == CHOOSE x \in todo : TRUE
         IN PartitionDatasets(PartitionDataset(st, d, 1, partition, target_sites),
                              todo \ {d}, partition, target_sites)

\* the two loops over the target sites, with every site rebuilt
SetSitesAll(st, target_sites) ==
    [dataset_replicas |-> [s \in PartSites |->
                              IF s \in DOMAIN st.all_dataset_replicas
                              THEN Elems(st.all_dataset_replicas[s]) ELSE {}],
     block_replicas |-> [s \in PartSites |->
                              IF s \in DOMAIN st.all_block_replicas
                              THEN Elems(st.all_block_replicas[s]) ELSE {}]]

\* site.dataset_replicas = set(dataset_replicas) and site.set_block_replicas(
\* block_replicas) for the target sites; the other sites are not visited
SetSites(st, target_sites) ==
    [dataset_replicas |-> [s \in PartSites |->
                              IF s \in target_sites
                              THEN Elems(st.all_dataset_replicas[s])
                              ELSE site_dataset_replicas[s]],
     block_replicas |-> [s \in PartSites |->
                              IF s \in target_sites
                              THEN Elems(st.all_block_replicas[s])
                              ELSE site_block_replicas[s]]]

PartitionReplicas(partition, target_sites) ==
    /\ pphase # "partitioned"
    /\ LET start == [replicas |-> dataset_replicas, block_replicas |-> dr_block_replicas,
                     untracked |-> untracked_replicas,
                     all_dataset_replicas |-> [s \in target_sites |-> <<>>],
                     all_block_replicas |-> [s \in target_sites |-> <<>>]]
           st == PartitionDatasets(start, PartDatasets, partition, target_sites)
           sites == SetSites(st, target_sites)
       IN /\ dataset_replicas' = st.replicas
          /\ dr_block_replicas' = st.block_replicas
          /\ untracked_replicas' = st.untracked
          /\ site_dataset_replicas' = sites.dataset_replicas
          /\ site_block_replicas' = sites.block_replicas
    /\ before' = [replicas |-> dataset_replicas, block_replicas |-> dr_block_replicas,
                  site_dataset_replicas |-> site_dataset_replicas,
                  site_block_replicas |-> site_block_replicas]
    /\ pargs' = [partition |-> partition, target_sites |-> target_sites]
    /\ pphase' = "partitioned"
    /\ UNCHANGED notPartVars

\* the body of the while loop of restore_replicas without the test of
\* dataset.replicas
RestoreAppends(st, replica) ==
    LET d == replica[1]
        site == replica[2]
    IN [st EXCEPT !.replicas[d] = Append(@, replica),
                  !.site_dataset_replicas[site] = @ \cup {replica},
                  !.block_replicas[replica] = @ \o st.untracked[replica],
                  !.site_block_replicas[site] = @ \cup Elems(st.untracked[replica])]

\* the body of the while loop of restore_replicas for the popped item
RestoreReplica(st, replica) ==
    LET d == replica[1]
        site == replica[2]
    IN [st EXCEPT !.replicas[d] = IF replica \notin Elems(@) THEN Append(@, replica) ELSE @,
                  !.site_dataset_replicas[site] = @ \cup {replica},
                  !.block_replicas[replica] = @ \o st.untracked[replica],
                  !.site_block_replicas[site] = @ \cup Elems(st.untracked[replica])]

RECURSIVE RestoreLoop(_, _, _)
RestoreLoop(st, order, i) ==
    IF i > Len(order) THEN st
    ELSE RestoreLoop(RestoreReplica(st, order[i]), order, i + 1)

\* the orders popitem can empty a dict in
PopOrders(keys) ==
    {o \in [1..Cardinality(keys) -> keys] : \A i, j \in DOMAIN o : i # j => o[i] # o[j]}

RestoreReplicas ==
    /\ pphase = "partitioned"
    /\ \E order \in PopOrders(DOMAIN untracked_replicas) :
          LET start == [replicas |-> dataset_replicas, block_replicas |-> dr_block_replicas,
                        site_dataset_replicas |-> site_dataset_replicas,
                        site_block_replicas |-> site_block_replicas,
                        untracked |-> untracked_replicas]
              st == RestoreLoop(start, order, 1)
          IN /\ dataset_replicas' = st.replicas
             /\ dr_block_replicas' = st.block_replicas
             /\ site_dataset_replicas' = st.site_dataset_replicas
             /\ site_block_replicas' = st.site_block_replicas
    /\ untracked_replicas' = <<>>
    /\ pphase' = "restored"
    /\ UNCHANGED <<before, pargs>>
    /\ UNCHANGED notPartVars

NextPart ==
    \/ \E partition \in SUBSET BlockReplicas, target_sites \in SUBSET PartSites :
          PartitionReplicas(partition, target_sites)
    \/ RestoreReplicas

InitSpecPart == InitPart /\ BlocksAtRest /\ InitBoard /\ PolicyAtRest /\ ParseAtRest /\ LocksAtRest /\ SocketAtRest /\ ServerAtRest

SpecPart == InitSpecPart /\ [][NextPart]_vars

\* two lists hold the same items, each as often, whatever their order
SameItems(a, b) ==
    /\ Len(a) = Len(b)
    /\ \A x \in Elems(a) \cup Elems(b) :
          Cardinality({i \in DOMAIN a : a[i] = x}) = Cardinality({i \in DOMAIN b : b[i] = x})

\* C14 as stated: after partition_replicas and then restore_replicas every
\* dataset's replicas, every dataset replica's block_replicas and every site's
\* dataset_replicas and block replicas are the same as before partitioning.
C14_RestoreIsInverse ==
    pphase = "restored" =>
        /\ dataset_replicas = before.replicas
        /\ dr_block_replicas = before.block_replicas
        /\ site_dataset_replicas = before.site_dataset_replicas
        /\ site_block_replicas = before.site_block_replicas

\* C14: after partition_replicas and then restore_replicas, for any partition
\* and any target sites, every dataset's replicas and every dataset replica's
\* block_replicas hold the same items as before partitioning (the order of the
\* lists may differ), every site's dataset_replicas and block replicas are the
\* sets they were, and untracked_replicas is empty.
C14_RestoreUpToOrder ==
    pphase = "restored" =>
        /\ \A d \in PartDatasets : SameItems(dataset_replicas[d], before.replicas[d])
        /\ \A R \in DatasetReplicas : SameItems(dr_block_replicas[R], before.block_replicas[R])
        /\ site_dataset_replicas = before.site_dataset_replicas
        /\ site_block_replicas = before.site_block_replicas
        /\ DOMAIN untracked_replicas = {}

\* restored after a partition that kept one block replica of d1 at S1, with
\* S2 left out of the target sites
C14_Witness ==
    /\ pphase = "restored"
    /\ pargs.target_sites = {"S1"}
    /\ pargs.partition = {<<"b1", "S1">>}
    /\ Len(before.block_replicas[<<"d1", "S2">>]) = 2
    /\ Len(dr_block_replicas[<<"d1", "S2">>]) = 2
    /\ Len(dataset_replicas["d2"]) = 1

\* the block replicas of R, before partitioning, that the partition selects at
\* a target site
InPartition(R) ==
    {br \in Elems(before.block_replicas[R]) :
        br \in pargs.partition /\ R[2] \in pargs.target_sites}

\* untracked_replicas[R], nothing when R is not a key
Untracked(R) ==
    IF R \in DOMAIN untracked_replicas THEN Elems(untracked_replicas[R]) ELSE {}

\* what partition_replicas does to the dataset replica R itself
ReplicaPartitioned(R) ==
    /\ R \in Elems(dataset_replicas[R[1]]) <=> InPartition(R) # {}
    /\ Elems(dr_block_replicas[R]) = InPartition(R)
    /\ Len(dr_block_replicas[R]) = Cardinality(InPartition(R))
    /\ Untracked(R) = Elems(before.block_replicas[R]) \ InPartition(R)

\* site s holds exactly the partitioned view
SiteRebuilt(s) ==
    /\ site_dataset_replicas[s] = {R \in DatasetReplicas : R[2] = s /\ InPartition(R) # {}}
    /\ site_block_replicas[s] = UNION {InPartition(R) : R \in {Q \in DatasetReplicas : Q[2] = s}}

\* C15 as stated: after partition_replicas every site's dataset_replicas and
\* block replicas are rebuilt from the partitioned view: R is in its site's
\* dataset_replicas and in its dataset's replicas exactly when some block
\* replica of R is in the partition at a target site, R.block_replicas holds
\* exactly those and untracked_replicas[R] exactly the others.
C15_PartitionedView ==
    pphase = "partitioned" =>
        /\ \A R \in DatasetReplicas : ReplicaPartitioned(R)
        /\ \A s \in PartSites : SiteRebuilt(s)

\* C15: after partition_replicas, R is in its dataset's replicas exactly when
\* some block replica of R is in the partition at a target site,
\* R.block_replicas holds exactly those and untracked_replicas[R] exactly the
\* others; the dataset_replicas and block replicas of every target site are
\* rebuilt from this view, and a site outside target_sites keeps the
\* dataset_replicas and block replicas it had.
C15_PartitionedViewOfTargets ==
    pphase = "partitioned" =>
        /\ \A R \in DatasetReplicas : ReplicaPartitioned(R)
        /\ \A s \in pargs.target_sites : SiteRebuilt(s)
        /\ \A s \in PartSites \ pargs.target_sites :
              /\ site_dataset_replicas[s] = before.site_dataset_replicas[s]
              /\ site_block_replicas[s] = before.site_block_replicas[s]

\* partitioned with S2 left out: d1 at S1 keeps b1 and has b2 untracked, d2 at
\* S1 and d1 at S2 are recorded whole
C15_Witness ==
    /\ pphase = "partitioned"
    /\ pargs.target_sites = {"S1"}
    /\ pargs.partition = {<<"b1", "S1">>, <<"b2", "S2">>}
    /\ dr_block_replicas[<<"d1", "S1">>] = << <<"b1", "S1">> >>
    /\ Untracked(<<"d1", "S1">>) = {<<"b2", "S1">>}
    /\ Untracked(<<"d2", "S1">>) = {<<"c1", "S1">>}
    /\ Len(dataset_replicas["d1"]) = 1
    /\ <<"d1", "S2">> \in site_dataset_replicas["S2"]

\* C16: policy parsing ignores comment and blank lines and rejects every
\* invalid line with ConfigurationError, for file and for list input: a text
\* with an invalid line never produces a Policy, a text of valid, comment and
\* blank lines that has its required lines does, and no construction raises
\* anything but ConfigurationError.
C16_InvalidLinesRejected ==
    /\ perr \in {"none", "ConfigurationError"}
    /\ ptext.invalid => perr = "ConfigurationError"
    /\ (~ptext.invalid /\ ptext.complete) => perr = "none"

(***************************************************************************)
(* lib/policy/producers/weblock.py: WebReplicaLock.update.                 *)
(* locked_blocks[d].sites maps a site to [all |-> TRUE] for None (the      *)
(* dataset-level lock) or to the set of locked blocks.  An object name is  *)
(* <<dataset>> or <<dataset, block>> for "dataset#block".                  *)
(***************************************************************************)

\* dataset.replicas, as the sites they are at
ReplicaSites(d) == IF d = "d1" THEN <<"S1", "S2">> ELSE <<"S1">>

\* dataset.find_block(block_name) is not None
HasBlock(d, b) == (d = "d1" /\ b \in {"b1", "b2"}) \/ (d = "d2" /\ b = "c1")

\* site.find_dataset_replica(dataset) is not None
HasReplica(s, d) == s \in Elems(ReplicaSites(d))

\* self._sources: content type, site pattern and whether lock_url is set
Sources ==
    [list |-> [content_type |-> "LIST_OF_DATASETS", site_pattern |-> "S1", lock_url |-> TRUE],
     web |-> [content_type |-> "CMSWEB_LIST_OF_DATASETS", site_pattern |-> "None", lock_url |-> FALSE],
     sites |-> [content_type |-> "SITE_TO_DATASETS", site_pattern |-> "None", lock_url |-> TRUE]]

\* what source.make_request() can return for the two list types
ListData == { <<>>, <<"d1">>, <<"None", "d2">>, <<"dX", "d1">> }

\* the (site, object, info) items of a SITE_TO_DATASETS answer
SiteItems ==
    { [site |-> "S1", object |-> <<"d1">>, lock |-> TRUE],
      [site |-> "S1", object |-> <<"d1", "b1">>, lock |-> TRUE],
      [site |-> "S1", object |-> <<"d1", "b2">>, lock |-> TRUE],
      [site |-> "S1", object |-> <<"d1", "b2">>, lock |-> FALSE],
      [site |-> "S2", object |-> <<"d1", "b1">>, lock |-> TRUE],
      [site |-> "S2", object |-> <<"d2">>, lock |-> TRUE],
      [site |-> "S1", object |-> <<"d1", "bX">>, lock |-> TRUE],
      [site |-> "SX", object |-> <<"d1">>, lock |-> TRUE] }

ItemCounts == {0, 1, 2}

\* the items in an order data.items() and objects.items() can give: no
\* (site, object) key twice
SiteData ==
    { o \in UNION { [1..n -> SiteItems] : n \in ItemCounts } :
        \A i, j \in DOMAIN o :
            i # j => (o[i].site # o[j].site \/ o[i].object # o[j].object) }

\* the for loop over inventory.datasets that pops the attribute, left out
KeepLocks(lb) == lb

\* for dataset in inventory.datasets.itervalues(): dataset.attr.pop('locked_blocks')
ClearLocks(lb) == [d \in DOMAIN lb |-> NoAttr]

\* site_re.match(replica.site.name) of a pattern with no wildcard
SiteMatches(site_pattern, site) == site_pattern = "None" \/ site_pattern = site

DatasetLevel_ == [all |-> TRUE, blocks |-> {}]

\* locked_blocks[site] = None, creating the attribute when it is missing
LockSite(lb, d, site) ==
    [lb EXCEPT ![d] = [present |-> TRUE, sites |-> Put(@.sites, site, DatasetLevel_)]]

\* for replica in dataset.replicas of the list types
RECURSIVE LockReplicas(_, _, _, _)
LockReplicas(lb, d, ir, site_pattern) ==
    IF ir > Len(ReplicaSites(d)) THEN lb
    ELSE LockReplicas(IF SiteMatches(site_pattern, ReplicaSites(d)[ir])
                      THEN LockSite(lb, d, ReplicaSites(d)[ir]) ELSE lb,
                      d, ir + 1, site_pattern)

\* for dataset_name in data of LIST_OF_DATASETS and CMSWEB_LIST_OF_DATASETS
RECURSIVE MergeList(_, _, _, _)
MergeList(lb, data, i, site_pattern) ==
    IF i > Len(data) THEN lb
    ELSE IF data[i] = "None" \/ data[i] \notin LockDatasets
         THEN MergeList(lb, data, i + 1, site_pattern)
         ELSE MergeList(LockReplicas([lb EXCEPT ![data[i]].present = TRUE], data[i], 1,
                                     site_pattern),
                        data, i + 1, site_pattern)

\* Block.from_full_name(object_name), (object_name, None) on ObjectError
FromFullName(object) ==
    IF Len(object) = 2 THEN [dataset_name |-> object[1], block_name |-> object[2]]
    ELSE [dataset_name |-> object[1], block_name |-> "None"]

\* the last if/elif/else of the SITE_TO_DATASETS branch
SetLock(lb, d, site, block) ==
    LET at == lb[d].sites
    IN IF block = "None" THEN LockSite(lb, d, site)
       ELSE IF site \in DOMAIN at /\ ~at[site].all
       THEN [lb EXCEPT ![d].sites[site].blocks = @ \cup {block}]
       ELSE [lb EXCEPT ![d] = [present |-> TRUE,
                               sites |-> Put(@.sites, site, [all |-> FALSE, blocks |-> {block}])]]

\* the body of the loops over data.items() and objects.items()
MergeItem(lb, item) ==
    LET name == FromFullName(item.object)
    IN IF item.site \notin LockSites THEN lb
       ELSE IF ~item.lock THEN lb
       ELSE IF name.dataset_name \notin LockDatasets THEN lb
       ELSE IF ~HasReplica(item.site, name.dataset_name) THEN lb
       ELSE IF name.block_name # "None" /\ ~HasBlock(name.dataset_name, name.block_name) THEN lb
       ELSE SetLock([lb EXCEPT ![name.dataset_name].present = TRUE],
                    name.dataset_name, item.site, name.block_name)

RECURSIVE MergeSites(_, _, _)
MergeSites(lb, data, i) ==
    IF i > Len(data) THEN lb
    ELSE MergeSites(MergeItem(lb, data[i]), data, i + 1)

\* the locks an answer states: <<dataset, site, "None">> for a dataset-level
\* lock, <<dataset, site, block>> for a block-level one
StatedByList(data, site_pattern) ==
    {f \in LockDatasets \X LockSites \X {"None"} :
        f[1] \in Elems(data) /\ HasReplica(f[2], f[1]) /\ SiteMatches(site_pattern, f[2])}

StatedBySites(data) ==
    {<<FromFullName(data[i].object).dataset_name, data[i].site,
       FromFullName(data[i].object).block_name>> :
        i \in {k \in DOMAIN data :
                 /\ data[k].lock
                 /\ data[k].site \in LockSites
                 /\ data[k].object[1] \in LockDatasets
                 /\ HasReplica(data[k].site, data[k].object[1])
                 /\ (Len(data[k].object) = 2 => HasBlock(data[k].object[1], data[k].object[2]))}}

\* where update() goes when a source starts: the while loop if lock_url is set
SourceStart(name) == IF Sources[name].lock_url THEN "poll" ELSE "fetch"

\* the poll with a busy answer taken for "no lock"
PollNextBusyBreaks(resp) == IF resp \in {"404", "busy"} THEN "fetch" ELSE "raised"

\* opener.open(request): 404 breaks the loop, another HTTPError is raised, an
\* answer with no error goes on to time.sleep(60)
PollNext(resp) ==
    CASE resp = "404" -> "fetch"
      [] resp = "busy" -> "sleep"
      [] OTHER -> "raised"

\* the locks the datasets hold: <<dataset, site, "None">> for a dataset-level
\* lock, <<dataset, site, block>> for a block in the set
LockedFacts(lb) ==
    {f \in LockDatasets \X LockSites \X {"None", "b1", "b2", "c1"} :
        /\ lb[f[1]].present
        /\ f[2] \in DOMAIN lb[f[1]].sites
        /\ IF f[3] = "None" THEN lb[f[1]].sites[f[2]].all
           ELSE f[3] \in lb[f[1]].sites[f[2]].blocks}

\* update() is called: the attribute is popped from every dataset
LockUpdate(order) ==
    /\ lpc \in {"idle", "done", "raised"}
    /\ locked_blocks' = ClearLocks(locked_blocks)
    /\ previous' = LockedFacts(locked_blocks)
    /\ stated' = {}
    /\ lorder' = order
    /\ lidx' = 1
    /\ lpc' = SourceStart(order[1])
    /\ lresp' = "none"
    /\ lerr' = "none"
    /\ UNCHANGED notLockVars

\* one request to lock_url
LockPoll(resp) ==
    /\ lpc = "poll"
    /\ lresp' = resp
    /\ lpc' = PollNext(resp)
    /\ lerr' = IF PollNext(resp) = "raised" THEN "HTTPError" ELSE lerr
    /\ UNCHANGED <<locked_blocks, lorder, lidx, stated, previous>>
    /\ UNCHANGED notLockVars

\* time.sleep(60) returns
LockSleep ==
    /\ lpc = "sleep"
    /\ lpc' = "poll"
    /\ UNCHANGED <<locked_blocks, lorder, lidx, lresp, lerr, stated, previous>>
    /\ UNCHANGED notLockVars

\* the for loop over the sources goes to the next source or ends
NextSource ==
    /\ IF lidx = Len(lorder)
       THEN lpc' = "done" /\ lidx' = lidx
       ELSE lpc' = SourceStart(lorder[lidx + 1]) /\ lidx' = lidx + 1
    /\ lresp' = "none"
    /\ UNCHANGED <<lorder, lerr, previous>>

\* source.make_request() of a list source and the merge of its answer
LockFetchList(data) ==
    /\ lpc = "fetch"
    /\ Sources[lorder[lidx]].content_type # "SITE_TO_DATASETS"
    /\ locked_blocks' = MergeList(locked_blocks, data, 1, Sources[lorder[lidx]].site_pattern)
    /\ stated' = stated \cup StatedByList(data, Sources[lorder[lidx]].site_pattern)
    /\ NextSource
    /\ UNCHANGED notLockVars

\* source.make_request() of a SITE_TO_DATASETS source and the merge of its answer
LockFetchSites(data) ==
    /\ lpc = "fetch"
    /\ Sources[lorder[lidx]].content_type = "SITE_TO_DATASETS"
    /\ locked_blocks' = MergeSites(locked_blocks, data, 1)
    /\ stated' = stated \cup StatedBySites(data)
    /\ NextSource
    /\ UNCHANGED notLockVars

NextLock ==
    \/ \E order \in PopOrders(DOMAIN Sources) : LockUpdate(order)
    \/ \E resp \in {"404", "busy", "500"} : LockPoll(resp)
    \/ LockSleep
    \/ \E data \in ListData : LockFetchList(data)
    \/ \E data \in SiteData : LockFetchSites(data)

InitSpecLock == LocksAtRest /\ BlocksAtRest /\ InitBoard /\ PolicyAtRest /\ ParseAtRest /\ PartAtRest /\ SocketAtRest /\ ServerAtRest

SpecLock == InitSpecLock /\ [][NextLock]_vars

\* time.sleep(60) returns and the loop goes on
SpecLockFair == SpecLock /\ WF_vars(LockSleep)

Locked(lb, f) ==
    /\ lb[f[1]].present
    /\ f[2] \in DOMAIN lb[f[1]].sites
    /\ \/ lb[f[1]].sites[f[2]].all
       \/ f[3] # "None" /\ f[3] \in lb[f[1]].sites[f[2]].blocks

\* C18: lock merging is a union over the sources: after update() every lock a
\* source stated is held, a dataset-level one as locked_blocks[S] = None and a
\* block-level one as None or as a member of the set, in whatever order the
\* sources and their entries were iterated; no block-level entry narrows a
\* dataset-level lock.
C18_MergeIsUnion ==
    lpc = "done" => \A f \in stated : Locked(locked_blocks, f)

\* C19: a source with lock_url set is fetched only after lock_url answered 404;
\* a busy answer raises nothing and is followed by the sleep and another poll,
\* never by the fetch.
C19_PollUntil404 ==
    /\ []((lpc = "fetch" /\ Sources[lorder[lidx]].lock_url) => lresp = "404")
    /\ [](lresp = "busy" => (lerr = "none" /\ lpc \in {"sleep", "poll"}))
    /\ [][lpc = "sleep" => lpc' \in {"sleep", "poll"}]_vars
    /\ (lpc = "sleep" ~> lpc = "poll")

\* lock_url was busy, update() slept and is about to poll again
C19_Witness ==
    /\ lpc = "poll"
    /\ lresp = "busy"
    /\ lerr = "none"
    /\ Sources[lorder[lidx]].lock_url

(***************************************************************************)
(* lib/core/components/impl/socketappserver.py: SocketIO.send and recv.    *)
(* A string is the sequence of its characters.                             *)
(***************************************************************************)

DigitChars == <<"0", "1", "2", "3", "4", "5", "6", "7", "8", "9">>

\* '%d' % n
RECURSIVE FormatInt(_)
FormatInt(n) ==
    IF n < 10 THEN <<DigitChars[n + 1]>>
    ELSE Append(FormatInt(n \div 10), DigitChars[(n % 10) + 1])

\* the value of a digit character
DigitValue(c) == CHOOSE k \in 0..9 : DigitChars[k + 1] = c

\* int(text); ValueError (NoLength) for the empty string and for a text with a
\* character that is no digit
RECURSIVE ParseInt(_)
ParseInt(text) ==
    IF text = <<>> \/ \E i \in DOMAIN text : text[i] \notin Elems(DigitChars) THEN NoLength
    ELSE IF Len(text) = 1 THEN DigitValue(text[1])
    ELSE 10 * ParseInt(SubSeq(text, 1, Len(text) - 1)) + DigitValue(text[Len(text)])

\* bytes.partition(' '): the text before the first space and the text after it
PartitionSpace(bytes) ==
    IF \E i \in DOMAIN bytes : bytes[i] = " "
    THEN LET at == CHOOSE i \in DOMAIN bytes :
                      bytes[i] = " " /\ \A j \in 1..(i - 1) : bytes[j] # " "
         IN [head |-> SubSeq(bytes, 1, at - 1), tail |-> SubSeq(bytes, at + 1, Len(bytes))]
    ELSE [head |-> bytes, tail |-> <<>>]

\* the JSON texts sent: 7, [1, 2] and [1, 2, 3, 4]
Payloads ==
    { <<"7">>,
      <<"[", "1", ",", " ", "2", "]">>,
      <<"[", "1", ",", " ", "2", ",", " ", "3", ",", " ", "4", "]">> }

\* json.loads(data) returns: data is a number or one of the arrays
IsJson(data) ==
    \/ data \in Payloads
    \/ /\ data # <<>>
       /\ \A i \in DOMAIN data : data[i] \in Elems(DigitChars)
       /\ Len(data) > 1 => data[1] # "0"

\* '%d %s' % (len(bytes), bytes)
Frame(bytes) == FormatInt(Len(bytes)) \o <<" ">> \o bytes

CutCounts == {0, 1, 2}

\* the places the transport can split a text of n characters at
Cuts(n) ==
    { c \in UNION { [1..k -> 1..(n - 1)] : k \in CutCounts } :
        \A i, j \in DOMAIN c : i < j => c[i] < c[j] }

\* the transmissions a text arrives in when it is split at the cuts
Transmissions(text, c) ==
    [i \in 1..(Len(c) + 1) |->
        SubSeq(text, IF i = 1 THEN 1 ELSE c[i - 1] + 1,
                     IF i = Len(c) + 1 THEN Len(text) ELSE c[i])]

\* the peer sends the framed payload on a new connection and recv() is called
SockSend(payload, c) ==
    /\ rpc \in {"idle", "returned", "raised"}
    /\ spayload' = payload
    /\ wire' = Transmissions(Frame(payload), c)
    /\ rdata' = <<>>
    /\ rlength' = NoLength
    /\ rpc' = "reading"
    /\ rret' = [kind |-> "none", value |-> <<>>]
    /\ UNCHANGED notSockVars

\* return json.loads(data), or send('failed', ...) and raise RuntimeError
Loads(data) ==
    IF IsJson(data) THEN [kind |-> "returned", value |-> data]
    ELSE [kind |-> "RuntimeError", value |-> <<>>]

\* one turn of the while loop with a transmission from conn.recv(2048)
SockRecv ==
    /\ rpc = "reading"
    /\ wire # <<>>
    /\ LET bytes == Head(wire)
           first == rdata = <<>>
           part == PartitionSpace(bytes)
           length == IF first THEN ParseInt(part.head) ELSE rlength
           data == rdata \o (IF first THEN part.tail ELSE bytes)
       IN IF first /\ length = NoLength
          THEN /\ rpc' = "raised"
               /\ rret' = [kind |-> "ValueError", value |-> <<>>]
               /\ UNCHANGED <<rdata, rlength>>
          ELSE /\ rdata' = data
               /\ rlength' = length
               /\ IF Len(data) >= length
                  THEN /\ rret' = Loads(data)
                       /\ rpc' = IF IsJson(data) THEN "returned" ELSE "raised"
                  ELSE /\ rpc' = "reading"
                       /\ UNCHANGED rret
    /\ wire' = Tail(wire)
    /\ UNCHANGED spayload
    /\ UNCHANGED notSockVars

\* conn.recv returns '' or raises socket.error: the peer has closed
SockClosed ==
    /\ rpc = "reading"
    /\ wire = <<>>
    /\ rret' = Loads(rdata)
    /\ rpc' = IF IsJson(rdata) THEN "returned" ELSE "raised"
    /\ UNCHANGED <<spayload, wire, rdata, rlength>>
    /\ UNCHANGED notSockVars

NextSocket ==
    \/ \E payload \in Payloads : \E c \in Cuts(Len(Frame(payload))) : SockSend(payload, c)
    \/ SockRecv
    \/ SockClosed

InitSpecSocket ==
    SocketAtRest /\ BlocksAtRest /\ InitBoard /\ PolicyAtRest /\ ParseAtRest /\ PartAtRest
    /\ LocksAtRest /\ ServerAtRest

SpecSocket == InitSpecSocket /\ [][NextSocket]_vars

\* C20: the framing round-trips: for any JSON payload P and any way the
\* transport splits "<len(P)> P" into transmissions, recv has returned by the
\* time the last transmission is read, and it returns exactly P.
C20_FramingRoundTrip ==
    /\ (rpc = "reading") => wire # <<>>
    /\ (rpc \in {"returned", "raised"}) => (rret.kind = "returned" /\ rret.value = spayload)

(***************************************************************************)
(* SocketAppServer._process_application: the handler of one connection.    *)
(* The handler blocks where it reads from the client, so it is modelled in *)
(* three steps: accepting the connection (authentication), the first       *)
(* message (authorization and the command), and for interact the message   *)
(* carrying the address of the client's output sockets.                    *)
(***************************************************************************)

DN_TRANSLATION == [domainComponent |-> "DC", organizationalUnitName |-> "OU", commonName |-> "CN"]

\* every key of every RDN has a translation; otherwise l.164 raises KeyError
Translatable(rdns) ==
    \A i \in 1..Len(rdns) : \A j \in 1..Len(rdns[i]) : rdns[i][j][1] \in DOMAIN DN_TRANSLATION

\* the DN l.162-164 builds: one '/'-part per RDN, its 'KEY=value' items joined by '+'
FormatDN(rdns) ==
    [i \in 1..Len(rdns) |->
        [j \in 1..Len(rdns[i]) |-> <<DN_TRANSLATION[rdns[i][j][1]], rdns[i][j][2]>>]]

AliceName == <<<<<<"domainComponent", "ch">>>>, <<<<"commonName", "alice">>>>>>
BobName == <<<<<<"organizationalUnitName", "cms">>, <<"commonName", "bob">>>>>>
MalloryName == <<<<<<"commonName", "mallory">>>>>>
AuthorityName == <<<<<<"domainComponent", "ch">>>>, <<<<"commonName", "ca">>>>>>
CountryName == <<<<<<"countryName", "CH">>>>, <<<<"commonName", "alice">>>>>>

\* peer certificates: a user's own, a proxy issued by a user's certificate,
\* an unknown subject, and a subject with an attribute DN_TRANSLATION lacks
Certs ==
    { [subject |-> AliceName, issuer |-> AuthorityName],
      [subject |-> BobName, issuer |-> AuthorityName],
      [subject |-> AliceName \o <<<<<<"commonName", "proxy">>>>>>, issuer |-> AliceName],
      [subject |-> MalloryName, issuer |-> AuthorityName],
      [subject |-> CountryName, issuer |-> AuthorityName] }

\* master.identify_user: the user registered with the DN, or None
identify_user(dn) ==
    IF dn = FormatDN(AliceName) THEN "alice"
    ELSE IF dn = FormatDN(BobName) THEN "bob"
    ELSE "None"

Services == {"inventory", "registry"}

\* master.authorize_user
authorize_user(user, service) == <<user, service>> \in {<<"alice", "inventory">>}

\* master.get_applications(app_id = app_id): the rows with that id
get_applications(tbl, app_id) ==
    IF app_id \in DOMAIN tbl /\ tbl[app_id] # "absent"
    THEN <<[status |-> tbl[app_id]]>>
    ELSE <<>>

\* master.update_application(app_id, status = status)
update_application(tbl, app_id, status) == [tbl EXCEPT ![app_id] = status]

\* the running state of a handler: replies sent, effects performed, the
\* table, the work area, and where the handler stands next
Handling == [replies |-> areplies, trace |-> atrace, apps |-> apps, area |-> aarea, pc |-> "done"]

\* SocketIO.send(status, message)
IoSend(h, status, text, arg) ==
    [h EXCEPT !.replies = Append(@, [status |-> status, text |-> text, arg |-> arg])]

\* an except clause that only lets the finally clause run
HandlerExceptSilent(h, exc) == h

\* the except clause of the handler: the reply carries the exception
HandlerExcept(h, exc) == IoSend(h, "failed", "Exception", exc)

Effect(h, e) == [h EXCEPT !.trace = Append(@, e)]

\* the DN looked up at each turn of the loop over ['subject', 'issuer']
LoopDN(cert, dkey) == FormatDN(cert["subject"])

RECURSIVE IdentifyLoop(_, _)
IdentifyLoop(cert, dkeys) ==
    IF dkeys = <<>> THEN "None"
    ELSE LET user_name == identify_user(LoopDN(cert, Head(dkeys)))
         IN IF user_name # "None" THEN user_name ELSE IdentifyLoop(cert, Tail(dkeys))

\* a connection is accepted and the handler authenticates the peer
AppAccept(cert) ==
    /\ apc \in {"idle", "done"}
    /\ acert' = cert
    /\ amsg' = NoMessage
    /\ apps0' = apps
    /\ aarea' = NoArea
    /\ atrace' = <<>>
    /\ IF ~Translatable(cert["subject"])
       THEN /\ auser' = "None"
            /\ areplies' = <<[status |-> "failed", text |-> "Exception", arg |-> "KeyError"]>>
            /\ apc' = "done"
       ELSE LET user_name == IdentifyLoop(cert, <<"subject", "issuer">>)
            IN /\ auser' = user_name
               /\ IF user_name = "None"
                  THEN /\ areplies' = <<[status |-> "failed", text |-> "Unidentified user DN", arg |-> ""]>>
                       /\ apc' = "done"
                  ELSE /\ areplies' = <<>>
                       /\ apc' = "recv"
    /\ aconn' = IF apc' = "done" THEN "closed" ELSE "open"
    /\ ain' = "none"
    /\ UNCHANGED apps
    /\ UNCHANGED notAppVars

\* the part of a record a message carries
Restrict(f, S) == [k \in S |-> f[k]]

\* the key words of _submit_app a work-area path can contain as substrings
PathWords ==
    { {}, {"title"}, {"title", "args", "write_request"},
      {"title", "args", "write_request", "exec"},
      {"title", "args", "write_request", "exec", "exec_path"} }

AppIds == {1, 2, 3}

FullMessages ==
    [service : Services, command : {"poll", "kill", "submit", "interact", "status"},
     appid : {1}, title : {"t"}, args : {"a"}, write_request : {"w"}, exec : {"e"},
     exec_path : {"x"}, mode : {"asynch"}, path : {{}}]

\* first messages: with and without service, command and appid; submit with
\* each required field missing in turn, exec or exec_path or neither, mode
\* and path given or not; interact with and without path
AppMessages ==
    { Restrict(m, {"command", "appid"}) : m \in {f \in FullMessages : f.command = "kill"} }
    \cup { Restrict(m, {"service"}) : m \in FullMessages }
    \cup { Restrict(m, {"service", "command"}) : m \in FullMessages }
    \cup { [Restrict(m, {"service", "command", "appid"}) EXCEPT !["appid"] = a] :
             m \in {f \in FullMessages : f.command \in {"poll", "kill"}}, a \in AppIds }
    \cup { [Restrict(m, {"service", "command", "path"}) EXCEPT !["path"] = p] :
             m \in {f \in FullMessages : f.command \in {"interact", "status"}}, p \in PathWords }
    \cup UNION { UNION { { Restrict(m, {"service", "command"} \cup req \cup ex \cup md),
                           [Restrict(m, {"service", "command", "path"} \cup req \cup ex \cup md)
                               EXCEPT !["path"] = p] } :
                         req \in { {"title", "args", "write_request"}, {"args", "write_request"},
                                   {"title", "write_request"}, {"title", "args"} },
                         ex \in { {}, {"exec"}, {"exec_path"} },
                         md \in { {}, {"mode"} },
                         p \in PathWords } :
                 m \in {f \in FullMessages : f.command = "submit"} }
    \cup { [Restrict(m, {"service", "command", "title", "args", "write_request", "exec", "mode"})
               EXCEPT !["mode"] = "synch"] : m \in {f \in FullMessages : f.command = "submit"} }

\* the work area of a handler: the path the client gave, a directory
\* _make_workarea created, or the false value it returns when it fails
SuppliedArea(words) == [kind |-> "supplied", words |-> words, exists |-> TRUE]
MadeArea == [kind |-> "made", words |-> {}, exists |-> TRUE]
FailedArea == [kind |-> "failed", words |-> {}, exists |-> FALSE]

\* a kill that takes the status for granted
ActOnAppKillsAny(h, command, app_id) ==
    LET found == get_applications(h.apps, app_id)
    IN IF Len(found) = 0
       THEN IoSend(h, "failed", "Unknown appid", "")
       ELSE IF command = "kill"
            THEN IoSend(Effect([h EXCEPT !.apps = update_application(@, app_id, "KILLED")],
                               "update_application"),
                        "OK", "Task aborted.", "")
            ELSE IoSend(h, "OK", "application", found[1].status)

\* _act_on_app(command, app_id, io)
ActOnApp(h, command, app_id) ==
    LET found == get_applications(h.apps, app_id)
    IN IF Len(found) = 0
       THEN IoSend(h, "failed", "Unknown appid", "")
       ELSE LET app == found[1]
            IN IF command = "kill"
               THEN IF app.status = "NEW" \/ app.status = "RUN"
                    THEN IoSend(Effect([h EXCEPT !.apps = update_application(@, app_id, "KILLED")],
                                       "update_application"),
                                "OK", "Task aborted.", "")
                    ELSE IoSend(h, "OK", "Task already completed with status", app.status)
               ELSE IoSend(h, "OK", "application", app.status)

\* _submit_app(app_data, workarea, io) as the handler calls it,
\* _submit_app(workarea, app_data, io): its app_data is the work area and its
\* workarea the message.  'key in app_data' is then a substring test on the
\* path (TypeError on the false value of a failed _make_workarea), and the
\* subscripts and the concatenation of l.241-254 raise TypeError.
RECURSIVE MissingKey(_, _)
MissingKey(keys, area) ==
    IF keys = <<>> THEN "none"
    ELSE IF Head(keys) \notin area.words THEN Head(keys)
    ELSE MissingKey(Tail(keys), area)

SubmitApp(h, area, message) ==
    IF area.kind = "failed" THEN HandlerExcept(h, "TypeError")
    ELSE LET missing == MissingKey(<<"title", "args", "write_request">>, area)
         IN IF missing # "none" THEN IoSend(h, "failed", "Missing", missing)
            ELSE IF "exec_path" \in area.words
                 THEN IoSend(h, "failed", "Could not copy", "")
                 ELSE HandlerExcept(h, "TypeError")

\* l.185-192: the work area of a new application
WorkArea(h, message, made) ==
    IF "path" \in DOMAIN message
    THEN [h EXCEPT !.area = SuppliedArea(message["path"])]
    ELSE IF made
         THEN Effect([h EXCEPT !.area = MadeArea], "make_workarea")
         ELSE IoSend([h EXCEPT !.area = FailedArea], "failed", "Failed to create work area", "")

\* a dispatch that does not ask the master
DispatchUnauthorized(h, user_name, message, made) ==
    IF "command" \notin DOMAIN message THEN HandlerExcept(h, "KeyError")
    ELSE LET command == message["command"]
         IN IF command = "poll" \/ command = "kill"
            THEN IF "appid" \notin DOMAIN message THEN HandlerExcept(h, "KeyError")
                 ELSE ActOnApp(h, command, message["appid"])
            ELSE LET w == WorkArea(h, message, made)
                 IN IF command = "submit" THEN SubmitApp(w, w.area, message)
                    ELSE IF command = "interact"
                    THEN [IoSend(w, "OK", "", "") EXCEPT !.pc = "addr"]
                    ELSE w

\* l.175-198: authorization and the command of the first message
Dispatch(h, user_name, message, made) ==
    IF "service" \notin DOMAIN message THEN HandlerExcept(h, "KeyError")
    ELSE IF ~authorize_user(user_name, message["service"])
    THEN IoSend(h, "failed", "Unauthorized user/service", "")
    ELSE IF "command" \notin DOMAIN message THEN HandlerExcept(h, "KeyError")
    ELSE LET command == message["command"]
         IN IF command = "poll" \/ command = "kill"
            THEN IF "appid" \notin DOMAIN message THEN HandlerExcept(h, "KeyError")
                 ELSE ActOnApp(h, command, message["appid"])
            ELSE LET w == WorkArea(h, message, made)
                 IN IF command = "submit" THEN SubmitApp(w, w.area, message)
                    ELSE IF command = "interact"
                    THEN [IoSend(w, "OK", "", "") EXCEPT !.pc = "addr"]
                    ELSE w

\* what SocketIO.recv gives the handler: the message, RuntimeError after the
\* reply 'Ill-formatted data' (l.65-69), or the ValueError of int() (l.57)
RecvOutcomes == {"message", "ill-formatted", "ValueError"}

IoRecv(h, outcome) ==
    IF outcome = "ill-formatted"
    THEN HandlerExcept(IoSend(h, "failed", "Ill-formatted data", ""), "RuntimeError")
    ELSE HandlerExcept(h, "ValueError")

Commit(h) ==
    /\ areplies' = h.replies
    /\ atrace' = h.trace
    /\ apps' = h.apps
    /\ aarea' = h.area
    /\ apc' = h.pc
    /\ aconn' = IF h.pc = "done" THEN "closed" ELSE "open"

\* the first message arrives
AppCommand(outcome, message, made) ==
    /\ apc = "recv"
    /\ amsg' = IF outcome = "message" THEN message ELSE NoMessage
    /\ Commit(IF outcome = "message" THEN Dispatch(Handling, auser, message, made)
              ELSE IoRecv(Handling, outcome))
    /\ ain' = outcome
    /\ UNCHANGED <<acert, auser, apps0>>
    /\ UNCHANGED notAppVars

\* how the interactive session can go once the handler has replied OK: the
\* address message is ill-formatted or has a bad length or lacks 'host', a
\* connection to the client's address is refused, the subprocess cannot be
\* started, or the subprocess runs and exits
InteractOutcomes ==
    {"ill-formatted", "ValueError", "no host", "stdout refused", "stderr refused",
     "no process", "finished"}

\* l.200-202: the cleanup after _interact has returned
Cleanup(h, message) ==
    IF "path" \in DOMAIN message THEN h
    ELSE IF h.area.kind = "failed" THEN HandlerExcept(h, "TypeError")
    ELSE Effect([h EXCEPT !.area.exists = FALSE], "rmtree")

\* _interact(workarea, io) from its recv on, and the rest of the handler
Interact(h, message, outcome) ==
    [ IF outcome \in {"ill-formatted", "ValueError"} THEN IoRecv(h, outcome)
      ELSE IF outcome = "no host" THEN HandlerExcept(h, "KeyError")
      ELSE IF outcome \in {"stdout refused", "stderr refused"} THEN HandlerExcept(h, "socket.error")
      ELSE IF outcome = "no process" THEN HandlerExcept(h, "OSError")
      ELSE Cleanup(Effect(h, "spawn"), message)
    EXCEPT !.pc = "done" ]

\* the address message of an interactive session arrives
AppInteract(outcome) ==
    /\ apc = "addr"
    /\ Commit(Interact(Handling, amsg, outcome))
    /\ ain' = outcome
    /\ UNCHANGED <<acert, auser, amsg, apps0>>
    /\ UNCHANGED notAppVars

AppTables ==
    { [a \in {1, 2} |-> IF a = 1 THEN s1 ELSE s2] :
        s1 \in AppStatuses, s2 \in {"absent", "RUN", "DONE"} }

InitApp ==
    /\ apps \in AppTables
    /\ apc = "idle"
    /\ acert = NoCert
    /\ auser = "None"
    /\ amsg = NoMessage
    /\ areplies = <<>>
    /\ atrace = <<>>
    /\ aarea = NoArea
    /\ aconn = "none"
    /\ apps0 = apps
    /\ ain = "none"

NextApp ==
    \/ \E cert \in Certs : AppAccept(cert)
    \/ \E outcome \in RecvOutcomes, message \in AppMessages, made \in BOOLEAN :
          AppCommand(outcome, message, made)
    \/ \E outcome \in InteractOutcomes : AppInteract(outcome)

InitSpecApp ==
    InitApp /\ BlocksAtRest /\ InitBoard /\ PolicyAtRest /\ ParseAtRest /\ PartAtRest
    /\ LocksAtRest /\ SocketAtRest /\ SynchAtRest /\ ConsoleAtRest /\ ThreadsAtRest
    /\ FollowAtRest

SpecApp == InitSpecApp /\ [][NextApp]_vars

\* C21: authentication tries the subject DN and then the issuer DN: a peer
\* whose subject DN identifies no user but whose issuer DN identifies one
\* proceeds as that user, and a peer is rejected with 'Unidentified user DN'
\* only when neither DN identifies a user.
C21_SubjectThenIssuer ==
    (apc # "idle" /\ Translatable(acert["subject"]) /\ Translatable(acert["issuer"])) =>
        LET by_subject == identify_user(FormatDN(acert["subject"]))
            by_issuer == identify_user(FormatDN(acert["issuer"]))
        IN /\ (by_subject = "None" /\ by_issuer # "None") => auser = by_issuer
           /\ (apc = "done" /\ Len(areplies) > 0 /\ areplies[1].text = "Unidentified user DN")
                 => (by_subject = "None" /\ by_issuer = "None")

\* the peer of the connection was identified and the master authorized the
\* user for the service the first message names
Authorized ==
    /\ auser # "None"
    /\ "service" \in DOMAIN amsg
    /\ authorize_user(auser, amsg["service"])

KillHandled ==
    /\ apc = "done"
    /\ Authorized
    /\ {"command", "appid"} \subseteq DOMAIN amsg
    /\ amsg["command"] = "kill"

SubmitHandled ==
    /\ apc = "done"
    /\ Authorized
    /\ "command" \in DOMAIN amsg
    /\ amsg["command"] = "submit"

\* C24: an authorized submit carrying title, args, write_request and either
\* exec or exec_path, with or without path and mode, has its work area
\* created or chosen and is scheduled with the master, and in asynch mode the
\* reply is OK; a submit missing title, args or write_request is answered
\* failed and schedules nothing.
C24_SubmitSchedules ==
    SubmitHandled =>
        IF {"title", "args", "write_request"} \subseteq DOMAIN amsg
        THEN ({"exec", "exec_path"} \cap DOMAIN amsg # {} /\ aarea.kind \in {"supplied", "made"}) =>
                /\ "schedule" \in Elems(atrace)
                /\ ("mode" \in DOMAIN amsg /\ amsg["mode"] = "asynch") =>
                      areplies[Len(areplies)].status = "OK"
        ELSE /\ areplies # <<>>
             /\ areplies[Len(areplies)].status = "failed"
             /\ "schedule" \notin Elems(atrace)

\* the handler has finished an authorized interact command
InteractHandled ==
    /\ apc = "done"
    /\ Authorized
    /\ "command" \in DOMAIN amsg
    /\ amsg["command"] = "interact"

\* C27: when the handler of an interact command finishes, the work area has
\* been removed if the client did not supply path and is in place if the
\* client supplied it, however the interactive session ended.
C27_WorkAreaCleanedUp ==
    InteractHandled =>
        IF "path" \in DOMAIN amsg THEN aarea.exists ELSE ~aarea.exists

\* the exception the handled connection met for lack of a field of the first
\* message or for an ill-formatted message, if any
FieldError ==
    IF auser = "None" \/ apc # "done" \/ ain = "none" THEN "none"
    ELSE IF ain = "ill-formatted" THEN "RuntimeError"
    ELSE IF ain = "ValueError" THEN "ValueError"
    ELSE IF ain = "no host" THEN "KeyError"
    ELSE IF "service" \notin DOMAIN amsg THEN "KeyError"
    ELSE IF ~Authorized THEN "none"
    ELSE IF "command" \notin DOMAIN amsg THEN "KeyError"
    ELSE IF amsg["command"] \in {"poll", "kill"} /\ "appid" \notin DOMAIN amsg THEN "KeyError"
    ELSE "none"

SynchAddrs ==
    { Restrict([host |-> "client", port |-> "p"], S) : S \in SUBSET {"host", "port"} }

\* l.318-323, the first turn of the loop over the two sockets: connect raises
\* KeyError for an address without host or port and socket.error when the
\* client does not listen; l.320 then reads path, which nothing binds
ServeConnect(addr, listening) ==
    IF ~({"host", "port"} \subseteq DOMAIN addr)
    THEN [conns |-> <<"new", "new">>, raised |-> "KeyError"]
    ELSE IF ~listening
    THEN [conns |-> <<"new", "new">>, raised |-> "socket.error"]
    ELSE [conns |-> <<"connected", "new">>, raised |-> "NameError"]

\* one call of _serve_synch_app, as far as it gets
ServeSynchApp(app_id, addr, listening) ==
    LET c == ServeConnect(addr, listening)
    IN /\ sargs' = [app_id |-> app_id, addr |-> addr, listening |-> listening]
       /\ sconns' = c.conns
       /\ sstop' = FALSE
       /\ sthreads' = {}
       /\ sret' = [kind |-> "raised", value |-> c.raised]
       /\ UNCHANGED <<schild, srecord>>
       /\ UNCHANGED notSynchVars

\* the child process of the application exits
ChildExit ==
    /\ schild = "running"
    /\ schild' = "exited"
    /\ UNCHANGED <<sargs, srecord, sconns, sstop, sthreads, sret>>
    /\ UNCHANGED notSynchVars

\* the master's record of the application changes, or the row disappears
MasterRecord(status) ==
    /\ status # srecord
    /\ srecord' = status
    /\ UNCHANGED <<sargs, schild, sconns, sstop, sthreads, sret>>
    /\ UNCHANGED notSynchVars

NextSynch ==
    \/ \E app_id \in {1, 2}, addr \in SynchAddrs, listening \in BOOLEAN :
          ServeSynchApp(app_id, addr, listening)
    \/ ChildExit
    \/ \E status \in AppStatuses \cup {"absent"} : MasterRecord(status)

InitSpecSynch ==
    SynchAtRest /\ BlocksAtRest /\ InitBoard /\ PolicyAtRest /\ ParseAtRest /\ PartAtRest
    /\ LocksAtRest /\ SocketAtRest /\ AppAtRest /\ ConsoleAtRest /\ ThreadsAtRest
    /\ FollowAtRest

SpecSynch == InitSpecSynch /\ [][NextSynch]_vars

ActiveStatuses == {"NEW", "ASSIGNED", "RUN"}

\* a call for a client that gave its address and listens on it has ended
SynchRunEnded ==
    /\ sret.kind # "none"
    /\ {"host", "port"} \subseteq DOMAIN sargs.addr
    /\ sargs.listening

\* C25: synchronous submit: a call of _serve_synch_app ends by returning the
\* final response, after the child process has exited, and the status it
\* carries is a terminal one, never NEW, ASSIGNED or RUN; while the master's
\* record shows one of those the call has not returned.
C25_FinalResponseTerminal ==
    /\ SynchRunEnded =>
          /\ sret.kind = "returned"
          /\ schild = "exited"
          /\ sret.value \in AppStatuses \ ActiveStatuses
    /\ (sret.kind = "returned") => srecord \notin ActiveStatuses

\* C26: in a synchronous run the child process exits, then the stop event is
\* set, then both output sockets are closed, then the master is polled and
\* the final response is sent: the stop event is not set and no output
\* socket is closed while the child is running, and a run that has ended has
\* passed through all of these.
C26_SynchRunOrder ==
    /\ (sstop \/ "closed" \in Elems(sconns)) => schild = "exited"
    /\ SynchRunEnded =>
          /\ sstop
          /\ sconns = <<"closed", "closed">>
          /\ schild = "exited"

(***************************************************************************)
(* SocketConsole.raw_input: the input side of the interactive console.     *)
(***************************************************************************)

\* text[:n] and text[n:] of a Python string
PyHead(text, n) ==
    IF n >= 0 THEN SubSeq(text, 1, IF n < Len(text) THEN n ELSE Len(text))
    ELSE SubSeq(text, 1, Len(text) + n)

PyTail(text, n) ==
    IF n >= 0 THEN SubSeq(text, n + 1, Len(text))
    ELSE SubSeq(text, (IF Len(text) + n > 0 THEN Len(text) + n ELSE 0) + 1, Len(text))

WhiteSpace == {" ", "\n"}

\* text.strip()
RECURSIVE Strip(_)
Strip(text) ==
    IF text = <<>> THEN text
    ELSE IF Head(text) \in WhiteSpace THEN Strip(Tail(text))
    ELSE IF text[Len(text)] \in WhiteSpace THEN Strip(SubSeq(text, 1, Len(text) - 1))
    ELSE text

\* int(self._expected_length): int() ignores surrounding white space
ConsoleInt(text) == ParseInt(Strip(text))

\* l.429-438: the buffer is split into lines; what follows the last newline
\* is added to _last_line and stays in the buffer
RECURSIVE SplitBuffer(_)
SplitBuffer(k) ==
    IF \E i \in DOMAIN k.buffer : k.buffer[i] = "\n"
    THEN LET newline == CHOOSE i \in DOMAIN k.buffer :
                            k.buffer[i] = "\n" /\ \A j \in 1..(i - 1) : k.buffer[j] # "\n"
         IN SplitBuffer([k EXCEPT !.lines = Append(@, k.last \o SubSeq(k.buffer, 1, newline - 1)),
                                  !.last = <<>>,
                                  !.buffer = SubSeq(@, newline + 1, Len(@))])
    ELSE [k EXCEPT !.last = @ \o k.buffer]

\* the while loop of raw_input, l.385-440.  At l.398-401 a chunk without a
\* space is added to _expected_length and the loop continues with data
\* unchanged and not empty, so the same turn repeats: the call does not
\* return.
RECURSIVE RawInputLoop(_)
RawInputLoop(k) ==
    IF ~(Len(k.lines) = 0 \/ Len(k.data) # 0) THEN [kind |-> "returned", k |-> k]
    ELSE IF Len(k.data) = 0 /\ k.chunks = <<>> THEN [kind |-> "EOFError", k |-> k]
    ELSE LET k1 == IF Len(k.data) = 0
                   THEN [k EXCEPT !.data = Head(k.chunks), !.chunks = Tail(k.chunks)]
                   ELSE k
             at_start == Len(k1.buffer) = 0
         IN IF at_start /\ ~(\E i \in DOMAIN k1.data : k1.data[i] = " ")
            THEN [kind |-> "no return", k |-> k1]
            ELSE LET part == PartitionSpace(k1.data)
                     k2 == IF at_start
                           THEN [k1 EXCEPT !.expected = @ \o part.head, !.data = part.tail]
                           ELSE k1
                     expected_length == ConsoleInt(k2.expected)
                 IN IF expected_length = NoLength THEN [kind |-> "ValueError", k |-> k2]
                    ELSE IF expected_length = 0
                    THEN [kind |-> "EOFError", k |-> [k2 EXCEPT !.expected = <<>>]]
                    ELSE LET read_length == expected_length - Len(k2.buffer)
                             k3 == [k2 EXCEPT !.buffer = @ \o PyHead(k2.data, read_length),
                                              !.data = PyTail(k2.data, read_length)]
                         IN IF Len(k3.buffer) < expected_length THEN RawInputLoop(k3)
                            ELSE RawInputLoop([SplitBuffer(k3) EXCEPT !.expected = <<>>])

\* the payloads a client frames: 'a\n', 'a a\n', 'a', 'a\na\n' and the
\* empty payload of the frame of length 0
ConsolePayloads ==
    { <<"a", "\n">>, <<"a", " ", "a", "\n">>, <<"a">>, <<"a", "\n", "a", "\n">>, <<>> }

\* what a client sends in one session: one or two frames
ConsoleSessions == { <<p>> : p \in ConsolePayloads } \cup (ConsolePayloads \X ConsolePayloads)

RECURSIVE FrameAll(_)
FrameAll(payloads) ==
    IF payloads = <<>> THEN <<>> ELSE Frame(Head(payloads)) \o FrameAll(Tail(payloads))

\* the client frames its payloads, the transport splits the bytes at the
\* cuts, and the client closes the connection
ConsoleConnect(payloads, c) ==
    /\ kret.kind = "none"
    /\ kchunks = <<>>
    /\ kpayloads = <<>>
    /\ kpayloads' = payloads
    /\ kchunks' = Transmissions(FrameAll(payloads), c)
    /\ UNCHANGED <<klines, klast, kbuffer, kexpected, kret, kgot>>
    /\ UNCHANGED notConsVars

\* one call of raw_input
RawInput ==
    /\ kpayloads # <<>>
    /\ kret.kind \in {"none", "returned"}
    /\ LET r == RawInputLoop([data |-> <<>>, lines |-> klines, last |-> klast,
                              buffer |-> kbuffer, expected |-> kexpected, chunks |-> kchunks])
       IN /\ kchunks' = r.k.chunks
          /\ klast' = r.k.last
          /\ kbuffer' = r.k.buffer
          /\ kexpected' = r.k.expected
          /\ IF r.kind = "returned"
             THEN /\ klines' = Tail(r.k.lines)
                  /\ kret' = [kind |-> "returned", value |-> Head(r.k.lines)]
                  /\ kgot' = Append(kgot, Head(r.k.lines))
             ELSE /\ klines' = r.k.lines
                  /\ kret' = [kind |-> r.kind, value |-> <<>>]
                  /\ UNCHANGED kgot
    /\ UNCHANGED kpayloads
    /\ UNCHANGED notConsVars

NextConsole ==
    \/ \E payloads \in ConsoleSessions : \E c \in Cuts(Len(FrameAll(payloads))) :
          ConsoleConnect(payloads, c)
    \/ RawInput

InitSpecConsole ==
    ConsoleAtRest /\ BlocksAtRest /\ InitBoard /\ PolicyAtRest /\ ParseAtRest /\ PartAtRest
    /\ LocksAtRest /\ SocketAtRest /\ AppAtRest /\ SynchAtRest /\ ThreadsAtRest
    /\ FollowAtRest

SpecConsole == InitSpecConsole /\ [][NextConsole]_vars

\* the payloads before the first frame of length 0, concatenated
RECURSIVE SentText(_)
SentText(payloads) ==
    IF payloads = <<>> \/ Head(payloads) = <<>> THEN <<>>
    ELSE Head(payloads) \o SentText(Tail(payloads))

\* the newline-terminated lines of a text
RECURSIVE LinesOf(_)
LinesOf(text) ==
    IF \E i \in DOMAIN text : text[i] = "\n"
    THEN LET newline == CHOOSE i \in DOMAIN text :
                            text[i] = "\n" /\ \A j \in 1..(i - 1) : text[j] # "\n"
         IN <<SubSeq(text, 1, newline - 1)>> \o LinesOf(SubSeq(text, newline + 1, Len(text)))
    ELSE <<>>

\* C28: for any frames and any splitting of their bytes into chunks,
\* successive raw_input calls return the newline-terminated lines of the
\* concatenated payloads in the order sent, and raise EOFError at the frame
\* of length 0 (or at the end of the connection), after all of these lines.
C28_ConsoleLinesInOrder ==
    LET expected == LinesOf(SentText(kpayloads))
    IN /\ kret.kind \in {"none", "returned", "EOFError"}
       /\ Len(kgot) <= Len(expected)
       /\ kgot = SubSeq(expected, 1, Len(kgot))
       /\ (kret.kind = "EOFError") => kgot = expected

(***************************************************************************)
(* lib/dataformat/block.py with threads: Block._files_cache_lock around    *)
(* the body of _check_and_load_files, and Block.unlink.                    *)
(***************************************************************************)

\* whether _check_and_load_files(cache) on block b gets as far as
\* inventory_store.get_files: _files is None or an expired proxy (l.249,
\* l.279), the call is not refused on the server side (l.264), and
\* _load_files does not return at once for id 0 (l.289-292)
GetFilesCalled(ss, bs, b, cacheArg) ==
    /\ bs[b].files.k # "Set"
    /\ cacheArg \/ ~ss
    /\ bs[b].files.k = "None" \/ ~bs[b].files.live
    /\ bs[b].id # 0

\* what a change of the cache by thread t is recorded as
Mutation(t) ==
    [thread |-> t, holds |-> files_cache_lock = t,
     inside |-> {u \in Threads \ {t} : tpc[u] # "idle"}]

\* l.231-236: a thread calls _check_and_load_files on a block whose _files
\* is not a set and, unless server-side, acquires the lock
ThreadAcquire(t, b, cacheArg) ==
    /\ tpc[t] = "idle"
    /\ b \in objs
    /\ blocks[b].files.k # "Set"
    /\ server_side \/ files_cache_lock = "none"
    /\ files_cache_lock' = IF server_side THEN files_cache_lock ELSE t
    /\ tpc' = [tpc EXCEPT ![t] = "try"]
    /\ tcall' = [tcall EXCEPT ![t] = [block |-> b, cache |-> cacheArg]]
    /\ UNCHANGED <<tmut, tstore>>
    /\ UNCHANGED blockVars
    /\ UNCHANGED notThreadVars

\* l.238-280: the try block
ThreadBody(t) ==
    /\ tpc[t] = "try"
    /\ LET b == tcall[t].block
           r == IF blocks[b].files.k = "Set"
                THEN Result(blocks, cache, "ok", blocks[b].files.s)
                ELSE IF tcall[t].cache THEN CheckAndLoadCached(server_side, blocks, cache, b)
                ELSE CheckAndLoadPermanent(server_side, blocks, cache, b)
       IN /\ blocks' = r.bs
          /\ cache' = r.ch
          /\ cache_order' = OrderNext(cache_order, cache, r.ch)
          /\ ret' = Ret(r.err, "None")
          /\ tmut' = IF r.ch # cache THEN Mutation(t) ELSE tmut
          /\ tstore' = IF GetFilesCalled(server_side, blocks, b, tcall[t].cache)
                        THEN [thread |-> t, holds |-> files_cache_lock = t]
                        ELSE tstore
    /\ tpc' = [tpc EXCEPT ![t] = "finally"]
    /\ UNCHANGED <<server_side, objs, datasets, replica_links>>
    /\ UNCHANGED <<files_cache_lock, tcall>>
    /\ UNCHANGED notThreadVars

\* l.282-286: the finally clause releases the lock
ThreadRelease(t) ==
    /\ tpc[t] = "finally"
    /\ files_cache_lock' = IF server_side THEN files_cache_lock ELSE "none"
    /\ tpc' = [tpc EXCEPT ![t] = "idle"]
    /\ tcall' = [tcall EXCEPT ![t] = [block |-> NoBlock, cache |-> TRUE]]
    /\ UNCHANGED <<tmut, tstore>>
    /\ UNCHANGED blockVars
    /\ UNCHANGED notThreadVars

\* a thread calls block.unlink()
ThreadUnlink(t, b) ==
    /\ tpc[t] = "idle"
    /\ b \in objs
    /\ LET r == BlockUnlink(blocks, datasets, replica_links, cache, b)
       IN /\ blocks' = r.bs
          /\ datasets' = r.ds
          /\ replica_links' = r.rl
          /\ cache' = r.ch
          /\ cache_order' = OrderNext(cache_order, cache, r.ch)
          /\ ret' = Ret(r.err, "None")
          /\ tmut' = IF r.ch # cache THEN Mutation(t) ELSE tmut
    /\ UNCHANGED <<server_side, objs>>
    /\ UNCHANGED <<files_cache_lock, tpc, tcall, tstore>>
    /\ UNCHANGED notThreadVars

NextThreads ==
    \/ \E t \in Threads, b \in BlockIds, cacheArg \in BOOLEAN : ThreadAcquire(t, b, cacheArg)
    \/ \E t \in Threads : ThreadBody(t)
    \/ \E t \in Threads : ThreadRelease(t)
    \/ \E t \in Threads, b \in BlockIds : ThreadUnlink(t, b)

\* an inventory, server-side or not, that holds the three blocks of the
\* file-cache runs in dataset d1, their files not loaded
InitInventory ==
    /\ server_side \in BOOLEAN
    /\ blocks = [b \in BlockIds |->
                   IF b = 1 THEN NewBlock("b1", "d1", 3, 2, FALSE, 0, 1)
                   ELSE IF b = 2 THEN NewBlock("b2", "d1", 3, 2, FALSE, 0, 1)
                   ELSE NewBlock("b3", "d1", 2, 1, FALSE, 0, 0)]
    /\ objs = BlockIds
    /\ datasets = [d \in InventoryDatasets |-> BlockIds]
    /\ replica_links = {}
    /\ cache = <<>>
    /\ cache_order = <<>>
    /\ ret = Ret("ok", "None")

InitSpecThreads ==
    InitInventory /\ ThreadsAtRest /\ FollowAtRest /\ InitBoard /\ PolicyAtRest /\ ParseAtRest /\ PartAtRest
    /\ LocksAtRest /\ SocketAtRest /\ AppAtRest /\ SynchAtRest /\ ConsoleAtRest

SpecThreads == InitSpecThreads /\ [][NextThreads]_vars

\* C30: every change of Block._files_cache (insertion, FIFO eviction,
\* detaching an entry on file mutation, eviction by Block.unlink) is made by
\* a thread that holds Block._files_cache_lock, so no thread changes the
\* cache while another thread is inside the locked section.
C30_MutationsUnderLock ==
    (tmut.thread # "none") => (tmut.holds /\ tmut.inside = {})

\* C31: a thread that holds Block._files_cache_lock never calls
\* inventory_store.get_files: no call of get_files is made between the
\* acquire of l.236 and the release of l.284.
C31_NoStoreCallUnderLock ==
    (tstore.thread # "none") => ~tstore.holds

(***************************************************************************)
(* lib/dataformat/block.py: the operations on the file set of a block, in  *)
(* both modes, on an inventory whose third block disagrees with the store. *)
(***************************************************************************)

\* the file added and removed, the values assigned to num_files and size,
\* and the block copied from: it differs from b1 and b2 in size, num_files,
\* is_open and last_update
MemberFiles == {"f1"}
MemberNumFilesValues == {1}
MemberSizeValues == {2}
MemberDetached == {Detached("b1", "d1", 2, 1, TRUE, 1, 1)}

\* an inventory, server-side or not, with three blocks in dataset d1, their
\* files not loaded; the store holds f1 and f2 for each, which is what b1
\* and b2 declare and not what b3 declares
InitMembers ==
    /\ server_side \in BOOLEAN
    /\ blocks = [b \in BlockIds |->
                   IF b = 1 THEN NewBlock("b1", "d1", 3, 2, FALSE, 0, 1)
                   ELSE IF b = 2 THEN NewBlock("b2", "d1", 3, 2, FALSE, 0, 2)
                   ELSE NewBlock("b3", "d1", 2, 1, FALSE, 0, 3)]
    /\ objs = BlockIds
    /\ datasets = [d \in InventoryDatasets |-> BlockIds]
    /\ replica_links = {}
    /\ cache = <<>>
    /\ cache_order = <<>>
    /\ ret = Ret("ok", "None")

NextMembers ==
    \/ \E b \in BlockIds : ReadFiles(b)
    \/ \E b \in BlockIds, f \in MemberFiles : AddFileCall(b, f, TRUE)
    \/ \E b \in BlockIds, f \in MemberFiles : RemoveFileCall(b, f, TRUE)
    \/ \E b \in BlockIds, v \in MemberNumFilesValues : SetNumFiles(b, v)
    \/ \E b \in BlockIds, v \in MemberSizeValues : SetSize(b, v)
    \/ \E b \in BlockIds, e \in MemberDetached : Copy(b, e)
    \/ \E b \in BlockIds : Unlink(b)

InitSpecMembers ==
    InitMembers /\ InitBoard /\ PolicyAtRest /\ ParseAtRest /\ PartAtRest /\ LocksAtRest
    /\ SocketAtRest /\ ServerAtRest

SpecMembers == InitSpecMembers /\ [][NextMembers]_vars

\* the call of this step raised OperationalError and changed nothing
Refused ==
    /\ ret'.res = "OperationalError"
    /\ UNCHANGED <<blocks, objs, datasets, replica_links, cache>>

\* what holds of every step on the server side whatever the operation:
\* nothing is cached, no block holds a file set, and block.files gives what
\* _load_files gives at that moment
NothingRetained ==
    /\ cache' = <<>>
    /\ \A b \in objs' : blocks'[b].files = FNone
    /\ \A b \in BlockIds :
          ReadFiles(b) =>
              LET r == CheckAndLoadFiles(server_side, blocks, cache, b, TRUE)
                  ld == LoadFiles(blocks[b])
              IN /\ ret'.res = ld.err
                 /\ r.val = ld.files
                 /\ UNCHANGED <<blocks, cache>>

\* add_file, remove_file of a present file and the assignment of another
\* num_files or size are refused
MutatorsRefused ==
    /\ \A b \in BlockIds, f \in MemberFiles : AddFileCall(b, f, TRUE) => Refused
    /\ \A b \in BlockIds, f \in MemberFiles :
          (RemoveFileCall(b, f, TRUE) /\ ret'.was.present) => Refused
    /\ \A b \in BlockIds, v \in MemberNumFilesValues :
          (SetNumFiles(b, v) /\ v # blocks[b].num_files) => Refused
    /\ \A b \in BlockIds, v \in MemberSizeValues :
          (SetSize(b, v) /\ v # blocks[b].size) => Refused

\* block.copy(e) has to change size or num_files
CopyChangesFiles(b, e) ==
    /\ Copy(b, e)
    /\ blocks[b].dataset = e.dataset
    /\ blocks[b].size # e.size \/ blocks[b].num_files # e.num_files

LoadedAndDetached(b) ==
    /\ ret'.res = "ok"
    /\ blocks'[b].files.k = "Set"
    /\ b \notin CacheKeys(cache')

\* the call on block b had to load the files and the load raised
\* IntegrityError: the block is left unloaded and without an entry
LoadRaised(b) ==
    /\ ret'.res = "IntegrityError"
    /\ FileState(blocks, b) \in {"None", "expired proxy"}
    /\ LoadFiles(blocks[b]).err = "IntegrityError"
    /\ blocks'[b].files = FNone
    /\ b \notin CacheKeys(cache')

\* C33 as stated: on the client side add_file, and remove_file of a file
\* that is present, leave the block Loaded and without an entry in
\* Block._files_cache, whether its _files was None, a valid proxy or an
\* expired proxy before the call.
C33_MutationLoads ==
    [][~server_side =>
          /\ \A b \in BlockIds, f \in MemberFiles :
                AddFileCall(b, f, TRUE) =>
                    blocks'[b].files.k = "Set" /\ b \notin CacheKeys(cache')
          /\ \A b \in BlockIds, f \in MemberFiles :
                (RemoveFileCall(b, f, TRUE) /\ ret'.was.present) =>
                    blocks'[b].files.k = "Set" /\ b \notin CacheKeys(cache')]_vars

\* C33: on the client side add_file, and remove_file of a file that is
\* present, leave the block Loaded (its _files is a set of its own, with the
\* file added or removed) and without an entry in Block._files_cache,
\* whether its _files was None, a valid proxy or an expired proxy before the
\* call; the only other outcome is that the load from the store raises
\* IntegrityError, which leaves the block unloaded and without an entry.
C33_MutationLoadsAndDetaches ==
    [][~server_side =>
          /\ \A b \in BlockIds, f \in MemberFiles :
                AddFileCall(b, f, TRUE) =>
                    \/ LoadedAndDetached(b) /\ f \in blocks'[b].files.s
                    \/ LoadRaised(b)
          /\ \A b \in BlockIds, f \in MemberFiles :
                (RemoveFileCall(b, f, TRUE) /\ ret'.was.present) =>
                    LoadedAndDetached(b) /\ f \notin blocks'[b].files.s]_vars

\* add_file has just returned on a block whose proxy had expired, while
\* another block is cached
C33_Witness ==
    /\ ~server_side
    /\ ret.res = "ok"
    /\ ret.was.op = "add_file"
    /\ ret.was.files = "expired proxy"
    /\ blocks[ret.was.block].files.k = "Set"
    /\ ret.was.block \notin CacheKeys(cache)
    /\ cache # <<>>

\* C34: every load of a block's file set (block.files on a block whose
\* _files is None or an expired proxy) compares the number of the loaded
\* files with num_files and the sum of their sizes with size: it yields a
\* file set only if both agree, for every block including one whose id is 0,
\* and raises IntegrityError otherwise, leaving the cache and the blocks as
\* they were (an expired proxy having become None).
C34_LoadsVerified ==
    [][\A b \in BlockIds :
          (ReadFiles(b) /\ FileState(blocks, b) \in {"None", "expired proxy"}) =>
              LET ld == LoadFiles(blocks[b])
              IN /\ ret'.res = ld.err
                 /\ ld.err \in {"ok", "IntegrityError"}
                 /\ ld.err = "ok" =>
                       /\ Cardinality(ld.files) = blocks[b].num_files
                       /\ SumSizes(ld.files) = blocks[b].size
                 /\ ld.err = "IntegrityError" =>
                       /\ cache' = cache
                       /\ blocks' = [blocks EXCEPT ![b].files = FNone]]_vars

\* the entry of block b in the cache
CacheEntry(b) == (CHOOSE i \in 1..Len(cache) : cache[i].key = b)

\* block.files on block b loads the files from the store anew and caches
\* them (or raises what the load raises)
ReadReloads(b) ==
    LET r == CheckAndLoadFiles(server_side, blocks, cache, b, TRUE)
        ld == LoadFiles(blocks[b])
    IN /\ r.err = ld.err
       /\ ld.err = "ok" =>
             /\ r.val = ld.files
             /\ r.bs[b].files = FProxy(ld.files)
             /\ b \in CacheKeys(r.ch)

\* C35 as stated: on the client side a block has an entry in
\* Block._files_cache if and only if its _files is a valid proxy to that
\* entry, and a block whose _files is a proxy without an entry (it was
\* evicted or popped) holds an expired proxy, so that the next block.files
\* reloads from the store.
C35_HandleIffEntry ==
    ~server_side =>
        \A b \in objs :
            /\ b \in CacheKeys(cache) <=> ValidProxy(b)
            /\ b \in CacheKeys(cache) => cache[CacheEntry(b)].val = blocks[b].files.s
            /\ (blocks[b].files.k = "Proxy" /\ b \notin CacheKeys(cache)) =>
                  ExpiredProxy(b) /\ ReadReloads(b)

\* C35: on the client side a block that has an entry in Block._files_cache
\* holds a valid proxy to that entry; a block that holds a valid proxy has
\* an entry unless its file set is empty (the proxy to the empty frozenset
\* stays valid after the entry is gone); a block whose non-empty entry was
\* evicted or popped holds an expired proxy, and the next block.files
\* reloads from the store.
C35_HandleMatchesEntry ==
    ~server_side =>
        \A b \in objs :
            /\ b \in CacheKeys(cache) =>
                  ValidProxy(b) /\ cache[CacheEntry(b)].val = blocks[b].files.s
            /\ (ValidProxy(b) /\ blocks[b].files.s # {}) => b \in CacheKeys(cache)
            /\ (blocks[b].files.k = "Proxy" /\ b \notin CacheKeys(cache)
                /\ blocks[b].files.s # {}) =>
                  ExpiredProxy(b) /\ ReadReloads(b)

\* a cached block, a block whose non-empty entry was popped by unlink, and
\* a block in its dataset whose empty entry was evicted
C35_Witness ==
    /\ ~server_side
    /\ cache # <<>>
    /\ \E b \in objs : ExpiredProxy(b) /\ blocks[b].files.s # {}
    /\ \E b \in objs : Linked(b) /\ ValidProxy(b) /\ b \notin CacheKeys(cache)

(***************************************************************************)
(* lib/detox/policy.py: partition_replicas called again on the partitioned *)
(* inventory, as the iterations of a policy run do, before                 *)
(* restore_replicas.                                                       *)
(***************************************************************************)

\* a second partition_replicas(inventory, target_sites), with the partition
\* giving what it gives now; `before` stays the inventory before the first
\* call
PartitionAgain(partition, target_sites) ==
    /\ pphase = "partitioned"
    /\ LET start == [replicas |-> dataset_replicas, block_replicas |-> dr_block_replicas,
                     untracked |-> untracked_replicas,
                     all_dataset_replicas |-> [s \in target_sites |-> <<>>],
                     all_block_replicas |-> [s \in target_sites |-> <<>>]]
           st == PartitionDatasets(start, PartDatasets, partition, target_sites)
           sites == SetSites(st, target_sites)
       IN /\ dataset_replicas' = st.replicas
          /\ dr_block_replicas' = st.block_replicas
          /\ untracked_replicas' = st.untracked
          /\ site_dataset_replicas' = sites.dataset_replicas
          /\ site_block_replicas' = sites.block_replicas
    /\ pargs' = [partition |-> partition, target_sites |-> target_sites]
    /\ pphase' = "partitioned again"
    /\ UNCHANGED before
    /\ UNCHANGED notPartVars

\* restore_replicas() after the second call
RestoreAfterIteration ==
    /\ pphase = "partitioned again"
    /\ \E order \in PopOrders(DOMAIN untracked_replicas) :
          LET start == [replicas |-> dataset_replicas, block_replicas |-> dr_block_replicas,
                        site_dataset_replicas |-> site_dataset_replicas,
                        site_block_replicas |-> site_block_replicas,
                        untracked |-> untracked_replicas]
              st == RestoreLoop(start, order, 1)
          IN /\ dataset_replicas' = st.replicas
             /\ dr_block_replicas' = st.block_replicas
             /\ site_dataset_replicas' = st.site_dataset_replicas
             /\ site_block_replicas' = st.site_block_replicas
    /\ untracked_replicas' = <<>>
    /\ pphase' = "restored after iteration"
    /\ UNCHANGED <<before, pargs>>
    /\ UNCHANGED notPartVars

NextIterated ==
    \/ \E partition \in SUBSET BlockReplicas, target_sites \in SUBSET PartSites :
          pphase = "whole" /\ PartitionReplicas(partition, target_sites)
    \/ \E partition \in SUBSET BlockReplicas, target_sites \in SUBSET PartSites :
          PartitionAgain(partition, target_sites)
    \/ RestoreReplicas
    \/ RestoreAfterIteration

SpecIterated == InitSpecPart /\ [][NextIterated]_vars

\* C36: after one or more partition_replicas calls and then restore_replicas,
\* every block replica that belonged to a dataset replica before the first
\* call belongs to it again, exactly once, the dataset replica is in its
\* dataset's replicas again, and untracked_replicas is empty.
C36_ReplicasConserved ==
    pphase \in {"restored", "restored after iteration"} =>
        /\ \A R \in DatasetReplicas :
              /\ SameItems(dr_block_replicas[R], before.block_replicas[R])
              /\ Cardinality({i \in DOMAIN dataset_replicas[R[1]] :
                                 dataset_replicas[R[1]][i] = R}) = 1
        /\ DOMAIN untracked_replicas = {}

\* C38: when the first message gives no path and _make_workarea fails, the
\* handler replies failed 'Failed to create work area' and is done: this is
\* the only reply on the connection, and the handler neither submits nor
\* starts an interactive session without the work area.
C38_FailedWorkAreaStops ==
    aarea.kind = "failed" =>
        /\ apc = "done"
        /\ areplies = << [status |-> "failed", text |-> "Failed to create work area",
                          arg |-> ""] >>
        /\ "spawn" \notin Elems(atrace)

(***************************************************************************)
(* socketappserver.py: tail_follow, one thread for _stdout and one for     *)
(* _stderr, beside the child process and the steps of _serve_synch_app     *)
(* that follow the start of the threads (l.325-331).  Output is a sequence *)
(* of characters.                                                          *)
(***************************************************************************)

\* the longest output file
MaxOutput == 3

\* what one write of the child appends: a whole line or a piece of one
OutputChunks == { <<"a", "\n">>, <<"b">> }

\* file.readline() at offset pos: up to and including the next newline, or
\* up to the end of the file
ReadLine(text, pos) ==
    LET ends == {i \in (pos + 1)..Len(text) : text[i] = "\n"}
        last == IF ends = {} THEN Len(text)
                ELSE CHOOSE i \in ends : \A j \in ends : i <= j
    IN SubSeq(text, pos + 1, last)

\* the threads have been started on connected sockets, the child runs and
\* has written nothing, the handler is about to wait for it
InitFollow ==
    /\ fcontent = [s \in Streams |-> NoFile]
    /\ fchild = "running"
    /\ fstop = FALSE
    /\ fsock = [s \in Streams |-> "connected"]
    /\ fhandler = "waitpid"
    /\ fpc = [s \in Streams |-> "wait"]
    /\ fpos = [s \in Streams |-> 0]
    /\ fline = [s \in Streams |-> <<>>]
    /\ fsent = [s \in Streams |-> <<>>]
    /\ flate = {}

\* the child writes to one of its output files, creating it
OutputWrite(s, chunk) ==
    /\ fchild = "running"
    /\ LET text == IF fcontent[s] = NoFile THEN <<>> ELSE fcontent[s]
       IN /\ Len(text) + Len(chunk) <= MaxOutput
          /\ fcontent' = [fcontent EXCEPT ![s] = text \o chunk]
    /\ UNCHANGED <<fchild, fstop, fsock, fhandler, fpc, fpos, fline, fsent, flate>>
    /\ UNCHANGED notFollowVars

\* the child exits
OutputExit ==
    /\ fchild = "running"
    /\ fchild' = "exited"
    /\ UNCHANGED <<fcontent, fstop, fsock, fhandler, fpc, fpos, fline, fsent, flate>>
    /\ UNCHANGED notFollowVars

\* l.73-80: one turn of the loop that waits for the file (a turn that ends
\* in sleep changes nothing)
TailWait(s) ==
    /\ fpc[s] = "wait"
    /\ fcontent[s] # NoFile \/ fstop
    /\ fpc' = [fpc EXCEPT ![s] = IF fcontent[s] # NoFile THEN "read" ELSE "returned"]
    /\ UNCHANGED <<fcontent, fchild, fstop, fsock, fhandler, fpos, fline, fsent, flate>>
    /\ UNCHANGED notFollowVars

\* l.84-91: one turn of the reading loop up to the line it read (a turn
\* that reads nothing seeks back and sleeps)
TailRead(s) ==
    /\ fpc[s] = "read"
    /\ IF fstop
       THEN /\ fpc' = [fpc EXCEPT ![s] = "returned"]
            /\ UNCHANGED <<fpos, fline>>
       ELSE LET line == ReadLine(fcontent[s], fpos[s])
            IN /\ line # <<>>
               /\ fline' = [fline EXCEPT ![s] = line]
               /\ fpos' = [fpos EXCEPT ![s] = @ + Len(line)]
               /\ fpc' = [fpc EXCEPT ![s] = "send"]
    /\ UNCHANGED <<fcontent, fchild, fstop, fsock, fhandler, fsent, flate>>
    /\ UNCHANGED notFollowVars

\* l.93: stream.sendall(line); on a socket that was shut down and closed it
\* raises socket.error, which ends the thread
TailSend(s) ==
    /\ fpc[s] = "send"
    /\ IF fsock[s] = "closed"
       THEN /\ fpc' = [fpc EXCEPT ![s] = "raised"]
            /\ flate' = flate \cup {s}
            /\ UNCHANGED fsent
       ELSE /\ fpc' = [fpc EXCEPT ![s] = "read"]
            /\ fsent' = [fsent EXCEPT ![s] = @ \o fline[s]]
            /\ UNCHANGED flate
    /\ UNCHANGED <<fcontent, fchild, fstop, fsock, fhandler, fpos, fline>>
    /\ UNCHANGED notFollowVars

\* l.325: os.waitpid(pid, 0) returns once the child has exited
ServeWaitpid ==
    /\ fhandler = "waitpid"
    /\ fchild = "exited"
    /\ fhandler' = "set"
    /\ UNCHANGED <<fcontent, fchild, fstop, fsock, fpc, fpos, fline, fsent, flate>>
    /\ UNCHANGED notFollowVars

\* l.327: stop_reading.set()
ServeStop ==
    /\ fhandler = "set"
    /\ fstop' = TRUE
    /\ fhandler' = "close stdout"
    /\ UNCHANGED <<fcontent, fchild, fsock, fpc, fpos, fline, fsent, flate>>
    /\ UNCHANGED notFollowVars

\* l.329-331: shutdown and close of the two sockets, stdout first
ServeClose(s) ==
    /\ fhandler = "close " \o s
    /\ fsock' = [fsock EXCEPT ![s] = "closed"]
    /\ fhandler' = IF s = "stdout" THEN "close stderr" ELSE "poll"
    /\ UNCHANGED <<fcontent, fchild, fstop, fpc, fpos, fline, fsent, flate>>
    /\ UNCHANGED notFollowVars

NextFollow ==
    \/ \E s \in Streams, chunk \in OutputChunks : OutputWrite(s, chunk)
    \/ OutputExit
    \/ \E s \in Streams : TailWait(s)
    \/ \E s \in Streams : TailRead(s)
    \/ \E s \in Streams : TailSend(s)
    \/ ServeWaitpid
    \/ ServeStop
    \/ \E s \in Streams : ServeClose(s)

InitSpecFollow ==
    InitFollow /\ BlocksAtRest /\ InitBoard /\ PolicyAtRest /\ ParseAtRest /\ PartAtRest
    /\ LocksAtRest /\ SocketAtRest /\ AppAtRest /\ SynchAtRest /\ ConsoleAtRest /\ ThreadsAtRest

SpecFollow == InitSpecFollow /\ [][NextFollow]_vars

\* the content of an output file, nothing while the file is absent
OutputText(s) == IF fcontent[s] = NoFile THEN <<>> ELSE fcontent[s]

====
